---------------------------- MODULE Spec2Model ----------------------------
(***************************************************************************)
(* The installer hub worker (src/src/index.ts): the GET /:tool route that  *)
(* serves an install script from the per-location cache store or, on a     *)
(* miss, from the origin, and stores the fetched script in the background. *)
(*                                                                         *)
(* A request runs in the segments the awaits of the handler cut it into:   *)
(* Arrive (up to the call of cache.match), MatchSettle (the lookup has     *)
(* settled; on a miss up to the call of fetch), FetchSettle (the fetch has *)
(* settled; up to the return statement) and Return (the response reaches   *)
(* the caller).  StoreSettle is the background cache.put settling, and    *)
(* Terminate the end of a request's execution context.                     *)
(***************************************************************************)
EXTENDS Integers, Sequences, FiniteSets, TLC

VARIABLES
    req,      \* the requests: position in the handler, inputs, locals, response
    cache,    \* caches.default of each location: key -> stored entry
    streams,  \* the body streams: bytes, and whether a reader has used them
    tasks,    \* the promises handed to executionCtx.waitUntil
    logs,     \* the lines written with console.log
    now,      \* the time in seconds
    origin,   \* the script the origin serves
    since,    \* the time at which the origin began to serve it
    edge,     \* the edge cache of the origin fetch, of each location
    tee,      \* the splitter behind response.clone(), of each request
    registry  \* the TOOLS object the worker was built with

vars == <<req, cache, streams, tasks, logs, now, origin, since, edge, tee,
          registry>>

(***************************************************************************)
(* Bounds of the model.                                                    *)
(***************************************************************************)
MaxRequests == 2
MaxTicks == 2
TickStep == 200
ChunkLen == 6

Requests == 1..MaxRequests

(***************************************************************************)
(* Program constants.                                                      *)
(***************************************************************************)
CACHE_TTL == 300

DEFAULT_DOMAIN == "get.ngockhoi96.dev"

TOOLS == [gohome |-> [repo |-> "anIcedAntFA/gohome",
                      scriptPath |-> "scripts/install.sh"]]

(***************************************************************************)
(* The environment's inputs: the identifiers callers ask for, the header   *)
(* sets they send, the locations they reach, what the origin serves.       *)
(***************************************************************************)
Undefined == "undefined"

\* Property names every JavaScript object inherits from Object.prototype.
ObjectPrototype == {"constructor", "toString", "__proto__"}

ToolNames == {"gohome", "doesnotexist"}

\* any path segment a caller can send as :tool
Identifiers == ToolNames \cup ObjectPrototype

Curl == {<<"user-agent", "curl/7.81.0">>, <<"accept-encoding", "gzip">>,
         <<"host", "get.ngockhoi96.dev">>}

Wget == {<<"user-agent", "Wget/1.21.2">>, <<"accept-encoding", "identity">>}

CallerHeaders == {Curl, Wget}

Locations == {"SIN", "AMS"}

\* the versions of the script the maintainer publishes, in order
Versions == <<"#!/bin/sh\necho v1", "#!/bin/sh\necho v2">>

OriginStatuses == {200, 203, 404, 500}

\* what can throw between the call of fetch and the return statement:
\* the fetch itself, new Response(...), response.clone(), and the
\* statement that hands cache.put to waitUntil
Faults == {"fetch", "construct", "clone", "schedule"}

\* ctx.req.header(name): the value of the header, or undefined
header(hdrs, name) ==
    IF \E p \in hdrs : p[1] = name
    THEN (CHOOSE p \in hdrs : p[1] = name)[2]
    ELSE Undefined

\* TOOLS[toolName]: an own property of the registry, else a property
\* inherited from Object.prototype (an object or function, truthy, whose
\* repo and scriptPath are undefined), else undefined.
toolConfig(toolName) ==
    IF toolName \in DOMAIN registry
    THEN [kind |-> "own", repo |-> registry[toolName].repo,
          scriptPath |-> registry[toolName].scriptPath]
    ELSE IF toolName \in ObjectPrototype
         THEN [kind |-> "inherited", repo |-> Undefined, scriptPath |-> Undefined]
         ELSE [kind |-> Undefined, repo |-> Undefined, scriptPath |-> Undefined]

\* !toolConfig
falsy(config) == config.kind = Undefined

\* a URL built from the repository alone
scriptURLOfRepo(config) ==
    "https://raw.githubusercontent.com/" \o config.repo \o "/main/scripts/install.sh"

scriptURL(config) ==
    "https://raw.githubusercontent.com/" \o config.repo \o "/main/" \o config.scriptPath

\* a key that copies the caller's request: new Request(scriptURL, ctx.req.raw)
cacheKeyOfCaller(url, callerHeaders) ==
    [url |-> url, method |-> "GET", headers |-> callerHeaders]

\* new Request(scriptURL, { method: 'GET' }): nothing of the caller's request
cacheKey(url, callerHeaders) ==
    [url |-> url, method |-> "GET", headers |-> {}]

\* a handler that does not look at response.ok
okUnchecked(status) == TRUE

\* a handler that only turns away the origin's server errors
okBelow500(status) == status >= 200 /\ status <= 499

\* Response.ok
ok(status) == status >= 200 /\ status <= 299

ContentType == "text/plain; charset=utf-8"

CacheControl(ttl) == <<"public", "max-age", ttl>>

\* the headers the origin sends with the script
UpstreamHeaders ==
    [n \in {"Content-Type", "Cache-Control", "ETag", "Set-Cookie", "Via"} |->
        CASE n = "Content-Type" -> "text/plain"
          [] n = "Cache-Control" -> <<"private", "max-age", 60>>
          [] n = "ETag" -> "W/\"5f3c\""
          [] n = "Set-Cookie" -> "session=abc"
          [] n = "Via" -> "1.1 varnish"]

\* the headers of new Response(response.body, response) with Content-Type
\* and Cache-Control set afterwards: the origin's headers are carried over
StoredHeadersCopied ==
    [n \in DOMAIN UpstreamHeaders |->
        CASE n = "Content-Type" -> ContentType
          [] n = "Cache-Control" -> CacheControl(CACHE_TTL)
          [] OTHER -> UpstreamHeaders[n]]

\* stored headers that carry the tag of the request that stores them
StoredHeadersTagged ==
    [n \in {"Content-Type", "Cache-Control", "X-Content-Source", "X-Cache-Status"} |->
        CASE n = "Content-Type" -> ContentType
          [] n = "Cache-Control" -> CacheControl(CACHE_TTL)
          [] n = "X-Content-Source" -> "github"
          [] n = "X-Cache-Status" -> "MISS"]

\* stored headers that give the entry no lifetime
StoredHeadersNoLifetime ==
    [n \in {"Content-Type", "Cache-Control", "X-Content-Source"} |->
        CASE n = "Content-Type" -> ContentType
          [] n = "Cache-Control" -> CacheControl(0)
          [] n = "X-Content-Source" -> "github"]

\* the headers of the Response built on a miss (the entry handed to cache.put)
StoredHeaders ==
    [n \in {"Content-Type", "Cache-Control", "X-Content-Source"} |->
        CASE n = "Content-Type" -> ContentType
          [] n = "Cache-Control" -> CacheControl(CACHE_TTL)
          [] n = "X-Content-Source" -> "github"]

\* returned headers whose status tag is not the lookup's result
ReturnedHeadersWorkerTag(tag) ==
    [n \in {"Content-Type", "Cache-Control", "X-Cache-Status", "X-Worker-Version"} |->
        CASE n = "Content-Type" -> ContentType
          [] n = "Cache-Control" -> CacheControl(CACHE_TTL)
          [] n = "X-Cache-Status" -> "WORKER"
          [] n = "X-Worker-Version" -> "1.0.0"]

\* the headers of ctx.newResponse(response.body, 200, {...})
ReturnedHeaders(tag) ==
    [n \in {"Content-Type", "Cache-Control", "X-Cache-Status", "X-Worker-Version"} |->
        CASE n = "Content-Type" -> ContentType
          [] n = "Cache-Control" -> CacheControl(CACHE_TTL)
          [] n = "X-Cache-Status" -> tag
          [] n = "X-Worker-Version" -> "1.0.0"]

\* ctx.text(message, status)
text(message, status) ==
    [status |-> status,
     headers |-> [n \in {"Content-Type"} |-> "text/plain; charset=UTF-8"],
     body |-> message]

\* a 404 message that lists the registry, as the home page does
NotFoundTextListing(toolName, hdrs) ==
    "Error: Tool not found.\n\nAvailable tools:\n- gohome"

NotFoundText(toolName, hdrs) ==
    "Error: Tool '" \o toolName \o "' not found.\n\nAvailable tools at: " \o
    (IF header(hdrs, "host") # Undefined THEN header(hdrs, "host") ELSE DEFAULT_DOMAIN)

BadGatewayText(status) ==
    "Error: Failed to fetch script from GitHub (Status: " \o ToString(status) \o ")"

ServerErrorText(message) == "Internal Server Error: " \o message

NoStream == <<0, "">>

NoResponse == [status |-> 0, headers |-> <<>>, body |-> NoStream]

NoKey == [url |-> "", method |-> "", headers |-> {}]

NoRequest == [url |-> "", method |-> "", headers |-> {},
              cf |-> [cacheTtl |-> 0, cacheEverything |-> FALSE]]

\* a fetch that forwards the caller's headers to the origin
originRequestForwarding(url, callerHeaders) ==
    [url |-> url, method |-> "GET", headers |-> callerHeaders,
     cf |-> [cacheTtl |-> CACHE_TTL, cacheEverything |-> TRUE]]

\* fetch(scriptURL, { cf: { cacheTtl: CACHE_TTL, cacheEverything: true } }):
\* the request that goes out, with nothing of the caller's request
originRequest(url, callerHeaders) ==
    [url |-> url, method |-> "GET", headers |-> {},
     cf |-> [cacheTtl |-> CACHE_TTL, cacheEverything |-> TRUE]]

IdleRequest ==
    [pc |-> "idle", env |-> "none", at |-> 0,
     tool |-> "", hdrs |-> {}, loc |-> "", url |-> "", key |-> NoKey,
     tag |-> "", after |-> {}, thrown |-> "",
     fetches |-> 0, outbound |-> NoRequest,
     upstream |-> [result |-> "none", status |-> 0], response |-> NoResponse, out |-> NoResponse]

EmptyCache == [k \in {} |-> NoResponse]

\* a store that keeps nothing
PutDropped(store, key, entry) == store

\* the entries of a location's cache store after cache.put(key, entry) settles
Put(store, key, entry) ==
    [k \in DOMAIN store \cup {key} |-> IF k = key THEN entry ELSE store[k]]

maxAge(headers) == headers["Cache-Control"][3]

\* an entry that never expires
FreshForever(entry, t) == TRUE

\* an entry is served for max-age seconds after its store
Fresh(entry, t) == t - entry.storedAt <= maxAge(entry.headers)

\* cache.match(key): finds the entry stored under the key while it is fresh
Cached(loc, key, t) ==
    key \in DOMAIN cache[loc] /\ Fresh(cache[loc][key], t)

(***************************************************************************)
(* The edge cache behind fetch: with cf.cacheEverything the answer of the  *)
(* origin is kept at the location for cf.cacheTtl seconds, and a fetch of  *)
(* the same URL within that time can be answered from it.                  *)
(***************************************************************************)
EmptyEdge == [u \in {} |-> [status |-> 0, body |-> "", cachedAt |-> 0, ttl |-> 0]]

\* the answers the edge keeps
EdgeCacheable(status) == status \in 200..299

EdgePut(store, request, status, body, t) ==
    [u \in DOMAIN store \cup {request.url} |->
        IF u = request.url
        THEN [status |-> status, body |-> body, cachedAt |-> t,
              ttl |-> request.cf.cacheTtl]
        ELSE store[u]]

EdgeCached(loc, url, t) ==
    url \in DOMAIN edge[loc] /\ t - edge[loc][url].cachedAt <= edge[loc][url].ttl

(***************************************************************************)
(* Body streams.  A stream is read once: reading it marks it used, and a   *)
(* used stream yields nothing more.                                        *)
(***************************************************************************)
NewStream(heap, id, bytes) ==
    [s \in DOMAIN heap \cup {id} |->
        IF s = id THEN [bytes |-> bytes, used |-> FALSE] ELSE heap[s]]

\* what a reader gets from the stream
Read(heap, id) == IF heap[id].used THEN "" ELSE heap[id].bytes

Use(heap, id) == [heap EXCEPT ![id].used = TRUE]

\* the response itself handed on, not a clone of it
cloneOmitted(response, id) == response

\* response.clone(): tees the unread body; the clone gets a branch of its
\* own, which carries the same bytes as the branch the response keeps
clone(response, id) == [response EXCEPT !.body = id]

\* a clone taken after the body has been read: the reader has used the
\* body, and the branch gets what is left of it
TeeOfReadBody(heap, response, id) ==
    NewStream(Use(heap, response.body), id,
              Read(Use(heap, response.body), response.body))

Tee(heap, response, id) == NewStream(heap, id, heap[response.body].bytes)

(***************************************************************************)
(* The splitter behind response.clone().  The body arrives from the origin *)
(* in chunks.  A branch that asks for its next chunk gets the oldest chunk *)
(* buffered for it; when nothing is buffered for it, the next chunk is     *)
(* taken from the origin body, handed to the branch that asked and         *)
(* buffered for the other branch.                                          *)
(***************************************************************************)
Branches == {"body", "clone"}

Other(b) == IF b = "body" THEN "clone" ELSE "body"

NoTee == [pos |-> 0,
          queue |-> [b \in Branches |-> <<>>],
          got |-> [b \in Branches |-> ""]]

RECURSIVE Chunks(_)
\* the chunks in which the bytes arrive
Chunks(bytes) ==
    IF bytes = "" THEN <<>>
    ELSE IF Len(bytes) <= ChunkLen THEN <<bytes>>
    ELSE <<SubSeq(bytes, 1, ChunkLen)>> \o
         Chunks(SubSeq(bytes, ChunkLen + 1, Len(bytes)))

\* one stream shared by both readers: a chunk read by one is gone for the other
pullShared(t, chunks, b) ==
    IF t.pos < Len(chunks)
    THEN [t EXCEPT !.pos = @ + 1, !.got[b] = @ \o chunks[t.pos + 1]]
    ELSE t

\* the branch b reads its next chunk
pull(t, chunks, b) ==
    IF t.queue[b] # <<>>
    THEN [t EXCEPT !.queue[b] = Tail(@), !.got[b] = @ \o Head(t.queue[b])]
    ELSE IF t.pos < Len(chunks)
    THEN [t EXCEPT !.pos = @ + 1,
                   !.got[b] = @ \o chunks[t.pos + 1],
                   !.queue[Other(b)] = Append(@, chunks[t.pos + 1])]
    ELSE t

\* the branch has got every chunk
Drained(t, chunks, b) == t.queue[b] = <<>> /\ t.pos = Len(chunks)

\* the tag left as line 59 initialises it
cacheStatusInitial(found) == "MISS"

\* cacheStatus: 'MISS' (line 59), then 'HIT' or 'MISS' by the lookup's result
cacheStatus(found) == IF found THEN "HIT" ELSE "MISS"

\* the origin's own status passed on to the caller
UpstreamErrorPassedOn(status) == text(BadGatewayText(status), status)

\* the 502 of a non-2xx origin answer
UpstreamError(status) == text(BadGatewayText(status), 502)

\* the message of what was thrown
FaultMessage(fault) ==
    CASE fault = "fetch" -> "fetch failed"
      [] fault = "construct" -> "Response constructor failed"
      [] fault = "clone" -> "Body has already been used"
      [] fault = "schedule" -> "cache.put failed"

\* a store that is started but not handed to waitUntil
waitUntilOmitted(task) == [task EXCEPT !.registered = FALSE]

\* ctx.executionCtx.waitUntil(promise): the promise is registered with the
\* execution context of the request
waitUntil(task) == [task EXCEPT !.registered = TRUE]

\* a catch that blames the origin
CaughtAsBadGateway(message) == text(ServerErrorText(message), 502)

\* no catch: what is thrown leaves the handler, the caller gets no response
\* of the handler
CaughtRethrown(message) ==
    [status |-> 0, headers |-> <<>>, body |-> "Uncaught " \o message]

\* catch (error): the 500 of anything thrown inside the try block
Caught(message) == text(ServerErrorText(message), 500)

Init ==
    /\ req = [r \in Requests |-> IdleRequest]
    /\ cache = [l \in Locations |-> EmptyCache]
    /\ streams = [s \in {} |-> [bytes |-> "", used |-> FALSE]]
    /\ tasks = {}
    /\ logs = {}
    /\ now = 0
    /\ origin = 1
    /\ since = 0
    /\ edge = [l \in Locations |-> EmptyEdge]
    /\ tee = [r \in Requests |-> NoTee]
    /\ registry = TOOLS

\* registries of two tools, for a worker built with other entries in TOOLS:
\* repositories named owner/name, script paths inside the repository
RegistryNames == {"cli", "kit"}

Repos == {"acme/cli", "acme/kit"}

ScriptPaths == {"scripts/install.sh", "kit/main/scripts/install.sh"}

Registries == [RegistryNames -> [repo : Repos, scriptPath : ScriptPaths]]

InitKeys ==
    /\ req = [r \in Requests |-> IdleRequest]
    /\ cache = [l \in Locations |-> EmptyCache]
    /\ streams = [s \in {} |-> [bytes |-> "", used |-> FALSE]]
    /\ tasks = {}
    /\ logs = {}
    /\ now = 0
    /\ origin = 1
    /\ since = 0
    /\ edge = [l \in Locations |-> EmptyEdge]
    /\ tee = [r \in Requests |-> NoTee]
    /\ registry \in Registries

\* console.log(`[${cacheStatus}] ${toolName} - User-Agent: ... - IP: ...`)
StatusLine(r, tag) ==
    [level |-> "log", status |-> tag, tool |-> req[r].tool,
     ua |-> header(req[r].hdrs, "user-agent"),
     ip |-> header(req[r].hdrs, "cf-connecting-ip")]

\* the requests whose response has reached the caller
Answered == {q \in Requests : req[q].pc = "done"}

\* a handler that calls fetch first, before any lookup
ArriveFetchFirst(r, toolName, hdrs, loc) ==
    /\ req[r].pc = "idle"
    /\ \A q \in Requests : q < r => req[q].pc # "idle"
    /\ LET config == toolConfig(toolName)
           arrived == [req[r] EXCEPT !.env = "alive", !.at = now,
                                    !.tool = toolName, !.hdrs = hdrs, !.loc = loc,
                                    !.after = Answered]
       IN  IF falsy(config)
           THEN req' = [req EXCEPT ![r] =
                    [arrived EXCEPT !.pc = "done",
                                    !.out = text(NotFoundText(toolName, hdrs), 404)]]
           ELSE req' = [req EXCEPT ![r] =
                    [arrived EXCEPT !.pc = "fetch",
                                    !.url = scriptURL(config),
                                    !.key = cacheKey(scriptURL(config), hdrs),
                                    !.fetches = @ + 1,
                                    !.outbound = originRequest(scriptURL(config), hdrs)]]
    /\ UNCHANGED <<cache, streams, tasks, logs, now, origin, since, edge, tee, registry>>

(***************************************************************************)
(* app.get('/:tool'), lines 35-58: resolve the tool, build the key, call   *)
(* cache.match.                                                            *)
(***************************************************************************)
Arrive(r, toolName, hdrs, loc) ==
    /\ req[r].pc = "idle"
    /\ \A q \in Requests : q < r => req[q].pc # "idle"
    /\ LET config == toolConfig(toolName)
           arrived == [req[r] EXCEPT !.env = "alive", !.at = now,
                                    !.tool = toolName, !.hdrs = hdrs, !.loc = loc,
                                    !.after = Answered]
       IN  IF falsy(config)
           THEN req' = [req EXCEPT ![r] =
                    [arrived EXCEPT !.pc = "done",
                                    !.out = text(NotFoundText(toolName, hdrs), 404)]]
           ELSE req' = [req EXCEPT ![r] =
                    [arrived EXCEPT !.pc = "match",
                                    !.url = scriptURL(config),
                                    !.key = cacheKey(scriptURL(config), hdrs)]]
    /\ UNCHANGED <<cache, streams, tasks, logs, now, origin, since, edge, tee, registry>>

\* the requests whose origin fetch for the key of r is in flight
InFlight(r) ==
    {q \in Requests \ {r} :
        req[q].pc = "fetch" /\ req[q].key = req[r].key /\ req[q].loc = req[r].loc}

\* a lookup that waits while another request is fetching for the same key
MatchSettleSingleFlight(r, throws) ==
    /\ req[r].pc = "match"
    /\ InFlight(r) = {}
    /\ LET loc == req[r].loc
           key == req[r].key
           found == Cached(loc, key, now)
       IN  IF throws
           THEN /\ req' = [req EXCEPT ![r].pc = "done",
                                      ![r].thrown = "cache.match failed",
                                      ![r].out = Caught("cache.match failed")]
                /\ UNCHANGED <<streams, logs>>
           ELSE IF found
           THEN /\ req' = [req EXCEPT ![r].pc = "return",
                                      ![r].tag = cacheStatus(found),
                                      ![r].response =
                                          [status |-> cache[loc][key].status,
                                           headers |-> cache[loc][key].headers,
                                           body |-> <<r, "cached">>]]
                /\ streams' = NewStream(streams, <<r, "cached">>, cache[loc][key].body)
                /\ logs' = logs \cup {StatusLine(r, cacheStatus(found))}
           ELSE /\ req' = [req EXCEPT ![r].pc = "fetch",
                                      ![r].tag = cacheStatus(found),
                                      ![r].fetches = @ + 1,
                                      ![r].outbound =
                                          originRequest(req[r].url, req[r].hdrs)]
                /\ logs' = logs \cup {StatusLine(r, cacheStatus(found))}
                /\ UNCHANGED streams
    /\ UNCHANGED <<cache, tasks, now, origin, since, edge, tee, registry>>

\* a lookup whose hit renews the lifetime of the entry
MatchSettleTouching(r, throws) ==
    /\ req[r].pc = "match"
    /\ LET loc == req[r].loc
           key == req[r].key
           found == Cached(loc, key, now)
       IN  IF throws
           THEN /\ req' = [req EXCEPT ![r].pc = "done",
                                      ![r].thrown = "cache.match failed",
                                      ![r].out = Caught("cache.match failed")]
                /\ UNCHANGED <<cache, streams, logs>>
           ELSE IF found
           THEN /\ req' = [req EXCEPT ![r].pc = "return",
                                      ![r].tag = cacheStatus(found),
                                      ![r].response =
                                          [status |-> cache[loc][key].status,
                                           headers |-> cache[loc][key].headers,
                                           body |-> <<r, "cached">>]]
                /\ streams' = NewStream(streams, <<r, "cached">>, cache[loc][key].body)
                /\ logs' = logs \cup {StatusLine(r, cacheStatus(found))}
                /\ cache' = [cache EXCEPT ![loc][key].storedAt = now]
           ELSE /\ req' = [req EXCEPT ![r].pc = "fetch",
                                      ![r].tag = cacheStatus(found),
                                      ![r].fetches = @ + 1,
                                      ![r].outbound =
                                          originRequest(req[r].url, req[r].hdrs)]
                /\ logs' = logs \cup {StatusLine(r, cacheStatus(found))}
                /\ UNCHANGED <<cache, streams>>
    /\ UNCHANGED <<tasks, now, origin, since, edge, tee, registry>>

\* a lookup that takes an exception for an absent entry
MatchSettleThrowIsMiss(r, throws) ==
    /\ req[r].pc = "match"
    /\ LET loc == req[r].loc
           key == req[r].key
           found == ~throws /\ Cached(loc, key, now)
       IN  IF found
           THEN /\ req' = [req EXCEPT ![r].pc = "return",
                                      ![r].tag = cacheStatus(found),
                                      ![r].response =
                                          [status |-> cache[loc][key].status,
                                           headers |-> cache[loc][key].headers,
                                           body |-> <<r, "cached">>]]
                /\ streams' = NewStream(streams, <<r, "cached">>, cache[loc][key].body)
                /\ logs' = logs \cup {StatusLine(r, cacheStatus(found))}
           ELSE /\ req' = [req EXCEPT ![r].pc = "fetch",
                                      ![r].tag = cacheStatus(found),
                                      ![r].thrown = IF throws THEN "cache.match failed" ELSE @,
                                      ![r].fetches = @ + 1,
                                      ![r].outbound =
                                          originRequest(req[r].url, req[r].hdrs)]
                /\ logs' = logs \cup {StatusLine(r, cacheStatus(found))}
                /\ UNCHANGED streams
    /\ UNCHANGED <<cache, tasks, now, origin, since, edge, tee, registry>>

(***************************************************************************)
(* Lines 58-82: cache.match has settled.  A hit takes the entry as the     *)
(* response; a miss calls fetch; a lookup that throws lands in catch.      *)
(***************************************************************************)
MatchSettle(r, throws) ==
    /\ req[r].pc = "match"
    /\ LET loc == req[r].loc
           key == req[r].key
           found == Cached(loc, key, now)
       IN  IF throws
           THEN /\ req' = [req EXCEPT ![r].pc = "done",
                                      ![r].thrown = "cache.match failed",
                                      ![r].out = Caught("cache.match failed")]
                /\ UNCHANGED <<streams, logs>>
           ELSE IF found
           THEN /\ req' = [req EXCEPT ![r].pc = "return",
                                      ![r].tag = cacheStatus(found),
                                      ![r].response =
                                          [status |-> cache[loc][key].status,
                                           headers |-> cache[loc][key].headers,
                                           body |-> <<r, "cached">>]]
                /\ streams' = NewStream(streams, <<r, "cached">>, cache[loc][key].body)
                /\ logs' = logs \cup {StatusLine(r, cacheStatus(found))}
           ELSE /\ req' = [req EXCEPT ![r].pc = "fetch",
                                      ![r].tag = cacheStatus(found),
                                      ![r].fetches = @ + 1,
                                      ![r].outbound =
                                          originRequest(req[r].url, req[r].hdrs)]
                /\ logs' = logs \cup {StatusLine(r, cacheStatus(found))}
                /\ UNCHANGED streams
    /\ UNCHANGED <<cache, tasks, now, origin, since, edge, tee, registry>>

(***************************************************************************)
(* Lines 77-104: fetch has settled.  The answer came from the origin or,   *)
(* within cf.cacheTtl of an earlier fetch, from the edge.  A rejected      *)
(* fetch lands in catch, a non-2xx answer ends with 502; otherwise the     *)
(* response is rebuilt with the controlled headers, cloned, and the store  *)
(* of the clone is handed to waitUntil; whatever throws on the way lands   *)
(* in catch.                                                               *)
(***************************************************************************)
FetchSettle(r, fault, status, viaEdge) ==
    /\ req[r].pc = "fetch"
    /\ viaEdge => /\ fault # "fetch"
                  /\ EdgeCached(req[r].loc, req[r].url, now)
                  /\ status = edge[req[r].loc][req[r].url].status
    /\ LET loc == req[r].loc
           bytes == IF viaEdge THEN edge[loc][req[r].url].body ELSE Versions[origin]
           answered == [result |-> "response", status |-> status]
       IN  /\ edge' = IF fault # "fetch" /\ ~viaEdge /\ EdgeCacheable(status)
                      THEN [edge EXCEPT ![loc] =
                               EdgePut(@, req[r].outbound, status, bytes, now)]
                      ELSE edge
           /\ IF fault = "fetch"
              THEN /\ req' = [req EXCEPT ![r].pc = "done",
                                         ![r].upstream = [result |-> "rejected", status |-> 0],
                                         ![r].thrown = FaultMessage(fault),
                                         ![r].out = Caught(FaultMessage(fault))]
                   /\ UNCHANGED <<streams, tasks>>
              ELSE IF ~ok(status)
              THEN /\ req' = [req EXCEPT ![r].pc = "done",
                                         ![r].upstream = answered,
                                         ![r].out = UpstreamError(status)]
                   /\ UNCHANGED <<streams, tasks>>
              ELSE IF fault \in Faults
              THEN /\ req' = [req EXCEPT ![r].pc = "done",
                                         ![r].upstream = answered,
                                         ![r].thrown = FaultMessage(fault),
                                         ![r].out = Caught(FaultMessage(fault))]
                   /\ UNCHANGED <<streams, tasks>>
              ELSE LET response == [status |-> status, headers |-> StoredHeaders,
                                    body |-> <<r, "origin">>]
                       fetched == NewStream(streams, <<r, "origin">>, bytes)
                   IN  /\ req' = [req EXCEPT ![r].pc = "return",
                                             ![r].upstream = answered,
                                             ![r].response = response]
                       /\ streams' = Tee(fetched, response, <<r, "clone">>)
                       /\ tasks' = tasks \cup
                              {waitUntil(
                                  [req |-> r, loc |-> loc, key |-> req[r].key,
                                   entry |-> clone(response, <<r, "clone">>),
                                   registered |-> FALSE,
                                   state |-> "pending", settledAt |-> 0,
                                   stored |-> ""])}
    /\ UNCHANGED <<cache, logs, now, origin, since, tee, registry>>

\* a return that passes on the status of the response it holds
ReturnStoredStatus(r) ==
    /\ req[r].pc = "return"
    /\ req' = [req EXCEPT ![r].pc = "done",
                          ![r].out = [status |-> req[r].response.status,
                                      headers |-> ReturnedHeaders(req[r].tag),
                                      body |-> Read(streams, req[r].response.body)]]
    /\ streams' = Use(streams, req[r].response.body)
    /\ UNCHANGED <<cache, tasks, logs, now, origin, since, edge, tee, registry>>

\* a return that waits for the store handed to waitUntil
ReturnAfterStore(r) ==
    /\ req[r].pc = "return"
    /\ \A t \in tasks : t.req = r => t.state # "pending"
    /\ req' = [req EXCEPT ![r].pc = "done",
                          ![r].out = [status |-> 200,
                                      headers |-> ReturnedHeaders(req[r].tag),
                                      body |-> Read(streams, req[r].response.body)]]
    /\ streams' = Use(streams, req[r].response.body)
    /\ UNCHANGED <<cache, tasks, logs, now, origin, since, edge, tee, registry>>

(***************************************************************************)
(* Lines 106-112: the handler returns ctx.newResponse(response.body, 200,  *)
(* ...) and the caller reads the body.  Nothing here waits for the store.  *)
(***************************************************************************)
Return(r) ==
    /\ req[r].pc = "return"
    /\ req' = [req EXCEPT ![r].pc = "done",
                          ![r].out = [status |-> 200,
                                      headers |-> ReturnedHeaders(req[r].tag),
                                      body |-> Read(streams, req[r].response.body)]]
    /\ streams' = Use(streams, req[r].response.body)
    /\ UNCHANGED <<cache, tasks, logs, now, origin, since, edge, tee, registry>>

\* a store that is replicated to every location
StoreSettleEverywhere(t, rejects) ==
    /\ t \in tasks
    /\ t.state = "pending"
    /\ IF rejects
       THEN /\ tasks' = (tasks \ {t}) \cup
                            {[t EXCEPT !.state = "rejected", !.settledAt = now]}
            /\ UNCHANGED <<cache, streams>>
       ELSE /\ tasks' = (tasks \ {t}) \cup
                            {[t EXCEPT !.state = "resolved", !.settledAt = now,
                                       !.stored = Read(streams, t.entry.body)]}
            /\ cache' = [l \in Locations |->
                            Put(cache[l], t.key, [status |-> t.entry.status,
                                                  headers |-> t.entry.headers,
                                                  body |-> Read(streams, t.entry.body),
                                                  storedAt |-> now])]
            /\ streams' = Use(streams, t.entry.body)
    /\ UNCHANGED <<req, logs, now, origin, since, edge, tee, registry>>

\* a store whose rejection is retried until the entry is put
StoreSettleRetried(t, rejects) ==
    /\ t \in tasks
    /\ t.state = "pending"
    /\ tasks' = (tasks \ {t}) \cup
                     {IF rejects
                      THEN [t EXCEPT !.state = "rejected", !.settledAt = now]
                      ELSE [t EXCEPT !.state = "resolved", !.settledAt = now,
                                     !.stored = Read(streams, t.entry.body)]}
    /\ cache' = [cache EXCEPT ![t.loc] =
                    Put(@, t.key, [status |-> t.entry.status,
                                   headers |-> t.entry.headers,
                                   body |-> Read(streams, t.entry.body),
                                   storedAt |-> now])]
    /\ streams' = Use(streams, t.entry.body)
    /\ UNCHANGED <<req, logs, now, origin, since, edge, tee, registry>>

\* a store awaited inside the try block: its rejection lands in catch
StoreSettleAwaited(t, rejects) ==
    /\ t \in tasks
    /\ t.state = "pending"
    /\ IF rejects
       THEN /\ tasks' = (tasks \ {t}) \cup
                            {[t EXCEPT !.state = "rejected", !.settledAt = now]}
            /\ req' = [req EXCEPT ![t.req].pc = "done",
                                  ![t.req].out = Caught("cache.put failed")]
            /\ UNCHANGED <<cache, streams>>
       ELSE /\ tasks' = (tasks \ {t}) \cup
                            {[t EXCEPT !.state = "resolved", !.settledAt = now,
                                       !.stored = Read(streams, t.entry.body)]}
            /\ cache' = [cache EXCEPT ![t.loc] =
                            Put(@, t.key, [status |-> t.entry.status,
                                           headers |-> t.entry.headers,
                                           body |-> Read(streams, t.entry.body),
                                           storedAt |-> now])]
            /\ streams' = Use(streams, t.entry.body)
            /\ UNCHANGED req
    /\ UNCHANGED <<logs, now, origin, since, edge, tee, registry>>

(***************************************************************************)
(* Line 103, in the background: the cache.put handed to waitUntil settles. *)
(* Resolved, the entry is in the location's store; rejected, nothing       *)
(* observes it: the promise has no catch handler and the handler has left  *)
(* its try block.                                                          *)
(***************************************************************************)
StoreSettle(t, rejects) ==
    /\ t \in tasks
    /\ t.state = "pending"
    /\ IF rejects
       THEN /\ tasks' = (tasks \ {t}) \cup
                            {[t EXCEPT !.state = "rejected", !.settledAt = now]}
            /\ UNCHANGED <<cache, streams>>
       ELSE /\ tasks' = (tasks \ {t}) \cup
                            {[t EXCEPT !.state = "resolved", !.settledAt = now,
                                       !.stored = Read(streams, t.entry.body)]}
            /\ cache' = [cache EXCEPT ![t.loc] =
                            Put(@, t.key, [status |-> t.entry.status,
                                           headers |-> t.entry.headers,
                                           body |-> Read(streams, t.entry.body),
                                           storedAt |-> now])]
            /\ streams' = Use(streams, t.entry.body)
    /\ UNCHANGED <<req, logs, now, origin, since, edge, tee, registry>>

(***************************************************************************)
(* The execution context of a request ends once the handler has returned   *)
(* and every promise registered with waitUntil has settled; a store that   *)
(* was not registered is cut off with it.                                  *)
(***************************************************************************)
Terminate(r) ==
    /\ req[r].env = "alive"
    /\ req[r].pc = "done"
    /\ \A t \in tasks : (t.req = r /\ t.registered) => t.state # "pending"
    /\ req' = [req EXCEPT ![r].env = "terminated"]
    /\ tasks' = {IF t.req = r /\ t.state = "pending"
                 THEN [t EXCEPT !.state = "cut off"] ELSE t : t \in tasks}
    /\ UNCHANGED <<cache, streams, logs, now, origin, since, edge, tee, registry>>

(***************************************************************************)
(* The runtime ends the execution context by force (the time limit that    *)
(* waitUntil counts toward is exceeded): the stores of the request that    *)
(* are still pending are cut off, registered or not.                       *)
(***************************************************************************)
Teardown(r) ==
    /\ req[r].env = "alive"
    /\ req[r].pc = "done"
    /\ \E t \in tasks : t.req = r /\ t.state = "pending"
    /\ req' = [req EXCEPT ![r].env = "terminated"]
    /\ tasks' = {IF t.req = r /\ t.state = "pending"
                 THEN [t EXCEPT !.state = "cut off"] ELSE t : t \in tasks}
    /\ UNCHANGED <<cache, streams, logs, now, origin, since, edge, tee, registry>>

(***************************************************************************)
(* The readers of the two branches, chunk by chunk: the caller reads the   *)
(* body of the returned response, cache.put reads the clone.  Return and   *)
(* StoreSettle take all the reads of a branch as one step.                 *)
(***************************************************************************)
Pull(r, b) ==
    /\ <<r, "clone">> \in DOMAIN streams
    /\ b = "body" => req[r].pc = "done"
    /\ b = "clone" => \E t \in tasks : t.req = r /\ t.state = "pending"
    /\ LET chunks == Chunks(streams[<<r, "origin">>].bytes)
       IN  /\ ~Drained(tee[r], chunks, b)
           /\ tee' = [tee EXCEPT ![r] = pull(@, chunks, b)]
    /\ UNCHANGED <<req, cache, streams, tasks, logs, now, origin, since, edge, registry>>

(***************************************************************************)
(* The earlier revision of the handler (src/unnamed/part_001).  It differs *)
(* from the present one in four places: the key copies the caller's        *)
(* request, fetch has no cf options, the response built on a miss copies   *)
(* the origin's response and sets Cache-Control on it, and X-Cache-Status  *)
(* is the CF-Cache-Status header of the response in hand, or 'WORKER'.     *)
(* There is no cacheStatus variable and no log line.  The store is the     *)
(* same waitUntil(cache.put(cacheKey, response.clone())): StoreSettle.     *)
(***************************************************************************)
\* the key with the caller's headers dropped
cacheKeyEarlierBare(url, raw) ==
    [url |-> url, method |-> "GET", headers |-> {}]

\* new Request(scriptURL, c.req.raw): the method and the headers of the
\* caller's request under the script's URL
cacheKeyEarlier(url, raw) ==
    [url |-> url, method |-> "GET", headers |-> raw]

\* fetch(scriptURL)
originRequestEarlier(url) ==
    [url |-> url, method |-> "GET", headers |-> {},
     cf |-> [cacheTtl |-> 0, cacheEverything |-> FALSE]]

\* the CF-Cache-Status values a fetched response can come with
CfStatuses == {Undefined, "DYNAMIC", "HIT"}

\* the headers of the fetched response
FetchedHeaders(cf) ==
    [n \in DOMAIN UpstreamHeaders \cup
              (IF cf = Undefined THEN {} ELSE {"CF-Cache-Status"}) |->
        IF n = "CF-Cache-Status" THEN cf ELSE UpstreamHeaders[n]]

\* new Response(response.body, response), then
\* response.headers.set('Cache-Control', ...)
StoredHeadersEarlier(fetched) ==
    [n \in DOMAIN fetched \cup {"Cache-Control"} |->
        IF n = "Cache-Control" THEN CacheControl(CACHE_TTL) ELSE fetched[n]]

\* the headers of the response cache.match returns: the entry's, with
\* CF-Cache-Status: HIT when the store stamps what it serves
MatchedHeaders(stored, stamped) ==
    [n \in DOMAIN stored \cup (IF stamped THEN {"CF-Cache-Status"} ELSE {}) |->
        IF n = "CF-Cache-Status" /\ stamped THEN "HIT" ELSE stored[n]]

\* the headers of c.newResponse(response.body, 200, {...}):
\* response.headers.get('CF-Cache-Status') || 'WORKER'
ReturnedHeadersEarlier(response) ==
    [n \in {"Content-Type", "Cache-Control", "X-Cache-Status"} |->
        CASE n = "Content-Type" -> ContentType
          [] n = "Cache-Control" -> CacheControl(CACHE_TTL)
          [] n = "X-Cache-Status" ->
                 IF "CF-Cache-Status" \in DOMAIN response.headers
                 THEN response.headers["CF-Cache-Status"]
                 ELSE "WORKER"]

\* part_001, lines 35-54: resolve the tool, build the key, call cache.match
ArriveEarlier(r, toolName, hdrs, loc) ==
    /\ req[r].pc = "idle"
    /\ \A q \in Requests : q < r => req[q].pc # "idle"
    /\ LET config == toolConfig(toolName)
           arrived == [req[r] EXCEPT !.env = "alive", !.at = now,
                                    !.tool = toolName, !.hdrs = hdrs, !.loc = loc,
                                    !.after = Answered]
       IN  IF falsy(config)
           THEN req' = [req EXCEPT ![r] =
                    [arrived EXCEPT !.pc = "done",
                                    !.out = text(NotFoundText(toolName, hdrs), 404)]]
           ELSE req' = [req EXCEPT ![r] =
                    [arrived EXCEPT !.pc = "match",
                                    !.url = scriptURL(config),
                                    !.key = cacheKeyEarlier(scriptURL(config), hdrs)]]
    /\ UNCHANGED <<cache, streams, tasks, logs, now, origin, since, edge, tee, registry>>

\* part_001, lines 54-58: cache.match has settled
MatchSettleEarlier(r, throws, stamped) ==
    /\ req[r].pc = "match"
    /\ LET loc == req[r].loc
           key == req[r].key
           found == Cached(loc, key, now)
       IN  IF throws
           THEN /\ req' = [req EXCEPT ![r].pc = "done",
                                      ![r].thrown = "cache.match failed",
                                      ![r].out = Caught("cache.match failed")]
                /\ UNCHANGED streams
           ELSE IF found
           THEN /\ req' = [req EXCEPT ![r].pc = "return",
                                      ![r].response =
                                          [status |-> cache[loc][key].status,
                                           headers |-> MatchedHeaders(
                                               cache[loc][key].headers, stamped),
                                           body |-> <<r, "cached">>]]
                /\ streams' = NewStream(streams, <<r, "cached">>, cache[loc][key].body)
           ELSE /\ req' = [req EXCEPT ![r].pc = "fetch",
                                      ![r].fetches = @ + 1,
                                      ![r].outbound = originRequestEarlier(req[r].url)]
                /\ UNCHANGED streams
    /\ UNCHANGED <<cache, tasks, logs, now, origin, since, edge, tee, registry>>

\* part_001, lines 58-74: fetch has settled
FetchSettleEarlier(r, fault, status, cf) ==
    /\ req[r].pc = "fetch"
    /\ LET answered == [result |-> "response", status |-> status]
       IN  IF fault = "fetch"
           THEN /\ req' = [req EXCEPT ![r].pc = "done",
                                      ![r].upstream = [result |-> "rejected", status |-> 0],
                                      ![r].thrown = FaultMessage(fault),
                                      ![r].out = Caught(FaultMessage(fault))]
                /\ UNCHANGED <<streams, tasks>>
           ELSE IF ~ok(status)
           THEN /\ req' = [req EXCEPT ![r].pc = "done",
                                      ![r].upstream = answered,
                                      ![r].out = UpstreamError(status)]
                /\ UNCHANGED <<streams, tasks>>
           ELSE LET response == [status |-> status,
                                 headers |-> StoredHeadersEarlier(FetchedHeaders(cf)),
                                 body |-> <<r, "origin">>]
                    fetched == NewStream(streams, <<r, "origin">>, Versions[origin])
                IN  /\ req' = [req EXCEPT ![r].pc = "return",
                                          ![r].upstream = answered,
                                          ![r].response = response]
                    /\ streams' = Tee(fetched, response, <<r, "clone">>)
                    /\ tasks' = tasks \cup
                           {waitUntil(
                               [req |-> r, loc |-> req[r].loc, key |-> req[r].key,
                                entry |-> clone(response, <<r, "clone">>),
                                registered |-> FALSE,
                                state |-> "pending", settledAt |-> 0,
                                stored |-> ""])}
    /\ UNCHANGED <<cache, logs, now, origin, since, edge, tee, registry>>

\* part_001, lines 77-82: the handler returns c.newResponse(response.body,
\* 200, ...) and the caller reads the body
ReturnEarlier(r) ==
    /\ req[r].pc = "return"
    /\ req' = [req EXCEPT ![r].pc = "done",
                          ![r].out = [status |-> 200,
                                      headers |-> ReturnedHeadersEarlier(req[r].response),
                                      body |-> Read(streams, req[r].response.body)]]
    /\ streams' = Use(streams, req[r].response.body)
    /\ UNCHANGED <<cache, tasks, logs, now, origin, since, edge, tee, registry>>

\* time passes
Tick ==
    /\ now + TickStep <= MaxTicks * TickStep
    /\ now' = now + TickStep
    /\ UNCHANGED <<req, cache, streams, tasks, logs, origin, since, edge, tee, registry>>

\* the maintainer publishes another version of the script
OriginUpdate ==
    /\ origin < Len(Versions)
    /\ origin' = origin + 1
    /\ since' = now
    /\ UNCHANGED <<req, cache, streams, tasks, logs, now, edge, tee, registry>>

(***************************************************************************)
(* Spec: one caller and one location, within the lifetime of an entry;     *)
(* every outcome of the lookup, of the origin fetch and of the store; the  *)
(* script is updated.                                                      *)
(***************************************************************************)
Next ==
    \/ \E r \in Requests, n \in ToolNames : Arrive(r, n, Curl, "SIN")
    \/ \E r \in Requests, throws \in BOOLEAN : MatchSettle(r, throws)
    \/ \E r \in Requests, f \in {"none", "fetch"}, s \in OriginStatuses,
             e \in BOOLEAN :
           FetchSettle(r, f, s, e)
    \/ \E r \in Requests : Return(r)
    \/ \E t \in tasks, rejects \in BOOLEAN : StoreSettle(t, rejects)
    \/ OriginUpdate

Spec == Init /\ [][Next]_vars

(***************************************************************************)
(* SpecClients: callers with different headers reach different locations   *)
(* for the registered tool, within the lifetime of an entry; the lookup,   *)
(* the origin and the store answer normally.                               *)
(***************************************************************************)
NextClients ==
    \/ \E r \in Requests, h \in CallerHeaders, l \in Locations :
           Arrive(r, "gohome", h, l)
    \/ \E r \in Requests : MatchSettle(r, FALSE)
    \/ \E r \in Requests, e \in BOOLEAN : FetchSettle(r, "none", 200, e)
    \/ \E r \in Requests : Return(r)
    \/ \E t \in tasks : StoreSettle(t, FALSE)

SpecClients == Init /\ [][NextClients]_vars

(***************************************************************************)
(* SpecTime: one caller and one location while time passes and the script  *)
(* is updated; the lookup, the origin and the store answer normally, and   *)
(* the fetch is answered by the origin or by the edge.                     *)
(***************************************************************************)
NextTime ==
    \/ \E r \in Requests : Arrive(r, "gohome", Curl, "SIN")
    \/ \E r \in Requests : MatchSettle(r, FALSE)
    \/ \E r \in Requests, e \in BOOLEAN : FetchSettle(r, "none", 200, e)
    \/ \E r \in Requests : Return(r)
    \/ \E t \in tasks : StoreSettle(t, FALSE)
    \/ Tick
    \/ OriginUpdate

SpecTime == Init /\ [][NextTime]_vars

(***************************************************************************)
(* SpecStreams: misses whose two branches are read chunk by chunk, in any  *)
(* order and as far as each reader gets, while the script is updated.      *)
(***************************************************************************)
NextStreams ==
    \/ \E r \in Requests : Arrive(r, "gohome", Curl, "SIN")
    \/ \E r \in Requests : MatchSettle(r, FALSE)
    \/ \E r \in Requests : FetchSettle(r, "none", 200, FALSE)
    \/ \E r \in Requests : Return(r)
    \/ \E r \in Requests, b \in Branches : Pull(r, b)
    \/ OriginUpdate

SpecStreams == Init /\ [][NextStreams]_vars

(***************************************************************************)
(* SpecHeal: one caller and one location, within the lifetime of an entry; *)
(* a store resolves, rejects, or is cut off by a forced teardown.          *)
(***************************************************************************)
NextHeal ==
    \/ \E r \in Requests : Arrive(r, "gohome", Curl, "SIN")
    \/ \E r \in Requests : MatchSettle(r, FALSE)
    \/ \E r \in Requests : FetchSettle(r, "none", 200, FALSE)
    \/ \E r \in Requests : Return(r)
    \/ \E t \in tasks, rejects \in BOOLEAN : StoreSettle(t, rejects)
    \/ \E r \in Requests : Teardown(r)

SpecHeal == Init /\ [][NextHeal]_vars

(***************************************************************************)
(* SpecKeys: a worker built with two registered tools, whatever their      *)
(* entries; one caller and one location, within the lifetime of an entry.  *)
(***************************************************************************)
NextKeys ==
    \/ \E r \in Requests, n \in RegistryNames : Arrive(r, n, Curl, "SIN")
    \/ \E r \in Requests : MatchSettle(r, FALSE)
    \/ \E r \in Requests : FetchSettle(r, "none", 200, FALSE)
    \/ \E r \in Requests : Return(r)
    \/ \E t \in tasks : StoreSettle(t, FALSE)

SpecKeys == InitKeys /\ [][NextKeys]_vars

(***************************************************************************)
(* SpecRegistry: callers ask for any identifier, registered or not, with   *)
(* and without a Host header; the lookup and the store answer normally,    *)
(* the origin itself answers, with the script or with 404.                 *)
(***************************************************************************)
NextRegistry ==
    \/ \E r \in Requests, n \in Identifiers, h \in CallerHeaders :
           Arrive(r, n, h, "SIN")
    \/ \E r \in Requests : MatchSettle(r, FALSE)
    \/ \E r \in Requests, s \in {200, 404} : FetchSettle(r, "none", s, FALSE)
    \/ \E r \in Requests : Return(r)
    \/ \E t \in tasks : StoreSettle(t, FALSE)

SpecRegistry == Init /\ [][NextRegistry]_vars

(***************************************************************************)
(* SpecFaults: one caller and one location for the registered tool; the    *)
(* lookup can throw, and so can every statement between the call of fetch  *)
(* and the return; the store resolves or rejects.                          *)
(***************************************************************************)
NextFaults ==
    \/ \E r \in Requests : Arrive(r, "gohome", Curl, "SIN")
    \/ \E r \in Requests, throws \in BOOLEAN : MatchSettle(r, throws)
    \/ \E r \in Requests, f \in Faults \cup {"none"} : FetchSettle(r, f, 200, FALSE)
    \/ \E r \in Requests : Return(r)
    \/ \E t \in tasks, rejects \in BOOLEAN : StoreSettle(t, rejects)

SpecFaults == Init /\ [][NextFaults]_vars

(***************************************************************************)
(* SpecLive: the lifecycle of the execution contexts.  The runtime runs a  *)
(* started cache.put to its end (resolved or rejected) and ends a context  *)
(* that has nothing left to wait for; no context is torn down by force.    *)
(***************************************************************************)
NextLive ==
    \/ \E r \in Requests : Arrive(r, "gohome", Curl, "SIN")
    \/ \E r \in Requests : MatchSettle(r, FALSE)
    \/ \E r \in Requests : FetchSettle(r, "none", 200, FALSE)
    \/ \E r \in Requests : Return(r)
    \/ \E t \in tasks, rejects \in BOOLEAN : StoreSettle(t, rejects)
    \/ \E r \in Requests : Terminate(r)

SpecLive ==
    /\ Init /\ [][NextLive]_vars
    /\ WF_vars(\E t \in tasks, rejects \in BOOLEAN : StoreSettle(t, rejects))

(***************************************************************************)
(* SpecAnswer: every outcome of the lookup and of the origin fetch, which  *)
(* both settle in the end, one way or the other; the handler runs on when  *)
(* what it awaits has settled.  Nothing makes a store settle.              *)
(***************************************************************************)
NextAnswer ==
    \/ \E r \in Requests, n \in ToolNames : Arrive(r, n, Curl, "SIN")
    \/ \E r \in Requests, throws \in BOOLEAN : MatchSettle(r, throws)
    \/ \E r \in Requests, f \in {"none", "fetch"}, s \in {200, 404} :
           FetchSettle(r, f, s, FALSE)
    \/ \E r \in Requests : Return(r)
    \/ \E t \in tasks, rejects \in BOOLEAN : StoreSettle(t, rejects)

SpecAnswer ==
    /\ Init /\ [][NextAnswer]_vars
    /\ \A r \in Requests :
           /\ WF_vars(\E throws \in BOOLEAN : MatchSettle(r, throws))
           /\ WF_vars(\E f \in {"none", "fetch"}, s \in {200, 404} :
                          FetchSettle(r, f, s, FALSE))
           /\ WF_vars(Return(r))

(***************************************************************************)
(* SpecEarlier: the earlier revision, asked for the registered tool by     *)
(* callers with different headers in one location, within the lifetime of  *)
(* an entry; the origin answers with the script or with 404, with or       *)
(* without a CF-Cache-Status header; the store stamps what it serves, or   *)
(* not.                                                                    *)
(***************************************************************************)
NextEarlier ==
    \/ \E r \in Requests, h \in CallerHeaders : ArriveEarlier(r, "gohome", h, "SIN")
    \/ \E r \in Requests, stamped \in BOOLEAN : MatchSettleEarlier(r, FALSE, stamped)
    \/ \E r \in Requests, s \in {200, 404}, cf \in CfStatuses :
           FetchSettleEarlier(r, "none", s, cf)
    \/ \E r \in Requests : ReturnEarlier(r)
    \/ \E t \in tasks : StoreSettle(t, FALSE)

SpecEarlier == Init /\ [][NextEarlier]_vars

(***************************************************************************)
(* Vocabulary of the properties.                                           *)
(***************************************************************************)
CacheStatusOf(r) == req[r].out.headers["X-Cache-Status"]

Answered200(r) == req[r].pc = "done" /\ req[r].out.status = 200

TasksOf(r) == {t \in tasks : t.req = r}

StorePending(r) == \E t \in TasksOf(r) : t.state = "pending"

Is2xx(status) == status \in 200..299

FetchFailed(r) ==
    \/ req[r].upstream.result = "rejected"
    \/ req[r].upstream.result = "response" /\ ~Is2xx(req[r].upstream.status)

FetchSucceeded(r) ==
    req[r].upstream.result = "response" /\ Is2xx(req[r].upstream.status)

\* this step is the lookup of r settling with an answer (entry or absent)
LookupAnswers(r) == req[r].pc = "match" /\ req'[r].pc \in {"return", "fetch"}

\* this step is the store registered by r being rejected
StoreRejects(r) ==
    /\ \E t \in TasksOf(r) : t.state = "pending"
    /\ \E u \in tasks' : u.req = r /\ u.state = "rejected"

\* sub occurs in the text s
Contains(s, sub) ==
    \E i \in 1..(Len(s) - Len(sub) + 1) : SubSeq(s, i, i + Len(sub) - 1) = sub

\* the domain the 404 message points to
DomainOf(r) ==
    IF header(req[r].hdrs, "host") # Undefined
    THEN header(req[r].hdrs, "host") ELSE DEFAULT_DOMAIN

\* the store t has settled successfully where r looks up, for r's origin
\* URL, and no longer ago than the TTL
StoredFor(t, r) ==
    /\ t.state = "resolved"
    /\ t.loc = req[r].loc
    /\ t.key.url = req[r].url
    /\ now - t.settledAt <= CACHE_TTL

(***************************************************************************)
(* Key determinism (C1).                                                   *)
(***************************************************************************)
\* requests for one origin URL have one key, a GET, whatever the caller sent
SameKeyForAllCallers ==
    \A r1, r2 \in Requests :
        (req[r1].url # "" /\ req[r1].url = req[r2].url)
            => /\ req[r1].key = req[r2].key
               /\ req[r1].key.method = "GET"

\* a lookup that settles after the store of a caller with other headers
\* has settled for the same URL is a HIT
HitAfterAnotherCallersStore ==
    \A r \in Requests : \A t \in tasks :
        (LookupAnswers(r) /\ StoredFor(t, r) /\ req[t.req].hdrs # req[r].hdrs)
            => req'[r].tag = "HIT" /\ req'[r].fetches = 0

(***************************************************************************)
(* C1.  The cache key depends only on the tool's origin URL and the method *)
(* GET: two requests for the same origin URL have equal keys whatever      *)
(* headers their callers sent, and so a lookup that settles after another  *)
(* caller's store for that URL has settled successfully in the same        *)
(* location, within the TTL, is a HIT.                                     *)
(***************************************************************************)
KeyDeterminism == []SameKeyForAllCallers /\ [][HitAfterAnotherCallersStore]_vars

\* C1: a wget caller is answered HIT from the entry a curl caller's miss
\* stored
KeyDeterminismWitness ==
    \E r1, r2 \in Requests :
        /\ req[r1].hdrs = Curl /\ req[r2].hdrs = Wget
        /\ req[r1].loc = req[r2].loc /\ req[r1].url = req[r2].url
        /\ Answered200(r1) /\ CacheStatusOf(r1) = "MISS"
        /\ \E t \in TasksOf(r1) : t.state = "resolved"
        /\ Answered200(r2) /\ CacheStatusOf(r2) = "HIT"

(***************************************************************************)
(* Hit/miss sequencing (C2).                                               *)
(***************************************************************************)
\* a lookup that finds no entry under the key is a MISS and fetches once
FirstLookupMisses ==
    \A r \in Requests :
        (LookupAnswers(r) /\ req[r].key \notin DOMAIN cache[req[r].loc])
            => req'[r].tag = "MISS" /\ req'[r].pc = "fetch" /\ req'[r].fetches = 1

\* a request that arrived after a MISS for its key was answered, with no
\* time passed since, is a HIT without a fetch
ImmediateSecondRequestHits ==
    \A r1, r2 \in Requests :
        ( /\ r1 \in req[r2].after
          /\ req[r1].key = req[r2].key /\ req[r1].loc = req[r2].loc
          /\ Answered200(r1) /\ CacheStatusOf(r1) = "MISS"
          /\ Answered200(r2)
          /\ now = 0 )
            => CacheStatusOf(r2) = "HIT" /\ req[r2].fetches = 0

\* a lookup that settles after a store for its key has settled successfully
\* in its location, within the TTL, is a HIT without a fetch
LookupAfterStoreHits ==
    \A r \in Requests : \A t \in tasks :
        (LookupAnswers(r) /\ StoredFor(t, r) /\ t.key = req[r].key)
            => req'[r].tag = "HIT" /\ req'[r].pc = "return" /\ req'[r].fetches = 0

\* a miss and a hit contact the origin once between them
OneFetchPerMissAndHit ==
    \A r1, r2 \in Requests :
        ( /\ Answered200(r1) /\ CacheStatusOf(r1) = "MISS"
          /\ Answered200(r2) /\ CacheStatusOf(r2) = "HIT" )
            => req[r1].fetches + req[r2].fetches = 1

TagMatchesFetches ==
    \A r \in Requests :
        Answered200(r) =>
            /\ CacheStatusOf(r) \in {"HIT", "MISS"}
            /\ CacheStatusOf(r) = req[r].tag
            /\ CacheStatusOf(r) = "HIT" => req[r].fetches = 0
            /\ CacheStatusOf(r) = "MISS" => req[r].fetches = 1

\* the tag is set by the lookup's result and then stays, as does the
\* response once returned
TagSetOnce ==
    \A r \in Requests :
        /\ LookupAnswers(r) =>
               (req'[r].tag = "HIT") = Cached(req[r].loc, req[r].key, now)
        /\ req[r].tag # "" => req'[r].tag = req[r].tag
        /\ req[r].pc = "done" => req'[r].out = req[r].out

(***************************************************************************)
(* C3.  The cache-status tag of a 200 response is truthful: HIT goes with  *)
(* no origin fetch of that request and MISS with exactly one; the tag is   *)
(* set from the lookup's result and does not change afterwards.            *)
(***************************************************************************)
CacheStatusTruthful == []TagMatchesFetches /\ [][TagSetOnce]_vars

\* C3: one request answered HIT without a fetch, another MISS with one fetch
CacheStatusTruthfulWitness ==
    \E r1, r2 \in Requests :
        /\ Answered200(r1) /\ CacheStatusOf(r1) = "HIT" /\ req[r1].fetches = 0
        /\ Answered200(r2) /\ CacheStatusOf(r2) = "MISS" /\ req[r2].fetches = 1

(***************************************************************************)
(* C4.  No caching of failures: the cache store holds an entry for a key   *)
(* only if an origin fetch for that key returned 2xx, and the entry has a  *)
(* 2xx status; a request whose fetch returned non-2xx or was rejected      *)
(* registers no store; while no fetch for a key has returned 2xx, every    *)
(* lookup for it misses and goes to the origin.                            *)
(***************************************************************************)
NoCachingOfFailures ==
    /\ \A l \in Locations : \A k \in DOMAIN cache[l] :
           /\ Is2xx(cache[l][k].status)
           /\ \E r \in Requests :
                  req[r].key = k /\ req[r].loc = l /\ FetchSucceeded(r)
    /\ \A r \in Requests : FetchFailed(r) => TasksOf(r) = {}
    /\ \A r \in Requests :
           ( /\ req[r].tag # ""
             /\ \A q \in Requests : req[q].key = req[r].key => ~FetchSucceeded(q) )
               => req[r].tag = "MISS" /\ req[r].fetches = 1

\* C4: after a request ended 502, the next request for the key fetched again
NoCachingOfFailuresWitness ==
    \E r1, r2 \in Requests :
        /\ r1 \in req[r2].after /\ req[r1].key = req[r2].key
        /\ req[r1].out.status = 502 /\ FetchFailed(r1)
        /\ req[r2].tag = "MISS" /\ req[r2].fetches = 1
        /\ req[r2].key \notin DOMAIN cache[req[r2].loc]

(***************************************************************************)
(* C5.  A non-2xx status of the origin reaches the caller as 502, not as   *)
(* the origin's status, and ends the request: no response is built and no  *)
(* store is registered.                                                    *)
(***************************************************************************)
UpstreamErrorIs502 ==
    \A r \in Requests :
        (req[r].upstream.result = "response" /\ ~Is2xx(req[r].upstream.status))
            => /\ req[r].pc = "done"
               /\ req[r].out.status = 502
               /\ req[r].out.status # req[r].upstream.status
               /\ req[r].response = NoResponse
               /\ TasksOf(r) = {}

\* C5: the origin answered 404 and the caller got 502
UpstreamErrorIs502Witness ==
    \E r \in Requests :
        /\ req[r].upstream = [result |-> "response", status |-> 404]
        /\ req[r].pc = "done" /\ req[r].out.status = 502

(***************************************************************************)
(* C6.  A rejected origin fetch reaches the caller as 500 and registers no *)
(* store; no request fetches from the origin more than once.               *)
(***************************************************************************)
NetworkFailureIs500 ==
    \A r \in Requests :
        /\ req[r].fetches <= 1
        /\ req[r].upstream.result = "rejected"
               => /\ req[r].pc = "done"
                  /\ req[r].out.status = 500
                  /\ req[r].fetches = 1
                  /\ TasksOf(r) = {}

\* C6: a fetch was rejected and the caller got 500
NetworkFailureIs500Witness ==
    \E r \in Requests :
        /\ req[r].upstream.result = "rejected"
        /\ req[r].pc = "done" /\ req[r].out.status = 500 /\ req[r].fetches = 1

(***************************************************************************)
(* C7.  Non-blocking store: whenever a miss has registered its store and   *)
(* is about to return, returning the response is enabled while the store   *)
(* is still pending.                                                       *)
(***************************************************************************)
NonBlockingStore ==
    \A r \in Requests :
        (req[r].pc = "return" /\ StorePending(r)) => ENABLED Return(r)

\* C7: the caller has its 200 MISS and the store is still pending
NonBlockingStoreWitness ==
    \E r \in Requests :
        Answered200(r) /\ CacheStatusOf(r) = "MISS" /\ StorePending(r)

(***************************************************************************)
(* Failure isolation (C8).                                                 *)
(***************************************************************************)
\* the step in which a store is rejected changes no request
RejectionChangesNoRequest ==
    \A r \in Requests : StoreRejects(r) => req' = req

\* the caller of a miss whose store was rejected has 200, the MISS headers
\* and the fetched script
RejectedStoreLeaves200 ==
    \A t \in tasks :
        (t.state = "rejected" /\ req[t.req].pc = "done")
            => /\ req[t.req].out.status = 200
               /\ req[t.req].out.headers = ReturnedHeaders("MISS")
               /\ req[t.req].out.body = streams[<<t.req, "origin">>].bytes

(***************************************************************************)
(* C8.  Failure isolation: the step in which a background store rejects    *)
(* changes no request (status, headers and body of a response already      *)
(* returned stay as they are, and a response still to be returned is not   *)
(* turned into an error); the caller of a miss whose store was rejected    *)
(* has 200, MISS and the fetched script.                                   *)
(***************************************************************************)
FailureIsolation == [][RejectionChangesNoRequest]_vars /\ []RejectedStoreLeaves200

\* C8: the store of an answered miss was rejected
FailureIsolationWitness ==
    \E t \in tasks :
        /\ t.state = "rejected"
        /\ Answered200(t.req) /\ CacheStatusOf(t.req) = "MISS"
        /\ req[t.req].out.body \in {Versions[v] : v \in DOMAIN Versions}

(***************************************************************************)
(* C9.  Whenever the store registered by a miss rejects, the handler logs  *)
(* the failure.                                                            *)
(***************************************************************************)
StoreFailureLogged ==
    \A t \in tasks :
        t.state = "rejected" => \E line \in logs : line.level = "error"

(***************************************************************************)
(* C10.  Body fidelity: the bytes a resolved store put in the cache are    *)
(* the bytes fetched by its request and the bytes that request's caller    *)
(* received; the body of a HIT is the body some resolved store put under   *)
(* that key in that location.                                              *)
(***************************************************************************)
BodyFidelity ==
    /\ \A t \in tasks :
           t.state = "resolved"
               => /\ t.stored = streams[<<t.req, "origin">>].bytes
                  /\ req[t.req].pc = "done" => req[t.req].out.body = t.stored
    /\ \A r \in Requests :
           (Answered200(r) /\ CacheStatusOf(r) = "HIT")
               => \E t \in tasks :
                      /\ t.state = "resolved"
                      /\ t.key = req[r].key /\ t.loc = req[r].loc
                      /\ req[r].out.body = t.stored

\* C10: a HIT returned the first version, which a miss had returned and
\* stored before the script was updated
BodyFidelityWitness ==
    \E r1, r2 \in Requests :
        /\ origin = 2
        /\ Answered200(r1) /\ CacheStatusOf(r1) = "MISS"
        /\ \E t \in TasksOf(r1) : t.state = "resolved" /\ t.stored = Versions[1]
        /\ Answered200(r2) /\ CacheStatusOf(r2) = "HIT"
        /\ req[r2].out.body = Versions[1] /\ req[r1].out.body = Versions[1]

(***************************************************************************)
(* TTL expiry (C11).                                                       *)
(***************************************************************************)
\* a lookup is a HIT only within TTL seconds of the store of the entry
HitOnlyWithinTTL ==
    \A r \in Requests :
        (LookupAnswers(r) /\ req'[r].tag = "HIT")
            => /\ req[r].key \in DOMAIN cache[req[r].loc]
               /\ now - cache[req[r].loc][req[r].key].storedAt <= CACHE_TTL

\* a lookup more than TTL seconds after the store of the entry is a MISS
\* and fetches from the origin
ExpiredLookupMisses ==
    \A r \in Requests :
        ( /\ LookupAnswers(r)
          /\ req[r].key \in DOMAIN cache[req[r].loc]
          /\ now - cache[req[r].loc][req[r].key].storedAt > CACHE_TTL )
            => req'[r].tag = "MISS" /\ req'[r].pc = "fetch" /\ req'[r].fetches = 1

\* the lifetime of an entry counts from the last store for its key
EntryIsLastStore ==
    \A l \in Locations : \A k \in DOMAIN cache[l] :
        /\ \E t \in tasks :
               /\ t.state = "resolved" /\ t.loc = l /\ t.key = k
               /\ t.settledAt = cache[l][k].storedAt
        /\ \A t \in tasks :
               (t.state = "resolved" /\ t.loc = l /\ t.key = k)
                   => t.settledAt <= cache[l][k].storedAt

\* once the miss after an expiry has stored the script again, lookups within
\* TTL seconds of that store are HITs
HitAgainAfterRestore ==
    \A r \in Requests : \A t, old \in tasks :
        ( /\ LookupAnswers(r)
          /\ StoredFor(t, r) /\ t.key = req[r].key
          /\ old.state = "resolved" /\ old.loc = t.loc /\ old.key = t.key
          /\ now - old.settledAt > CACHE_TTL )
            => req'[r].tag = "HIT" /\ req'[r].fetches = 0

UpdatePropagationBounded ==
    \A r \in Requests :
        (Answered200(r) /\ req[r].at - since > CACHE_TTL)
            => req[r].out.body = Versions[origin]

(***************************************************************************)
(* C13.  Every identifier that is not registered in the tool registry,     *)
(* names of inherited object properties included, gets status 404 without  *)
(* the coordinator running: no cache lookup, no origin fetch, no store.    *)
(***************************************************************************)
UnregisteredIs404 ==
    \A r \in Requests :
        (req[r].pc # "idle" /\ req[r].tool \notin DOMAIN TOOLS)
            => /\ req[r].pc = "done"
               /\ req[r].out.status = 404
               /\ req[r].key = NoKey
               /\ req[r].fetches = 0
               /\ TasksOf(r) = {}

(***************************************************************************)
(* C14 as stated.  The body of the 404 response lists only registered      *)
(* identifiers: it contains the registered tool names and no identifier    *)
(* that is not in the registry.                                            *)
(***************************************************************************)
NotFoundListsRegistered ==
    \A r \in Requests :
        (req[r].pc = "done" /\ req[r].out.status = 404)
            => /\ \A n \in DOMAIN TOOLS : Contains(req[r].out.body, n)
               /\ \A n \in Identifiers \ DOMAIN TOOLS :
                      ~Contains(req[r].out.body, n)

(***************************************************************************)
(* C14 as amended.  The body of a 404 response names the identifier that   *)
(* was asked for, which is not a registered one, and points to the domain  *)
(* (the Host header, else the default domain) where the available tools    *)
(* are listed; it lists no registered identifier itself.                   *)
(***************************************************************************)
NotFoundNamesRequest ==
    \A r \in Requests :
        (req[r].pc = "done" /\ req[r].out.status = 404)
            => /\ req[r].tool \notin DOMAIN TOOLS
               /\ Contains(req[r].out.body, "'" \o req[r].tool \o "' not found")
               /\ Contains(req[r].out.body, "Available tools at: " \o DomainOf(r))
               /\ \A n \in DOMAIN TOOLS : ~Contains(req[r].out.body, n)

\* C14: 'doesnotexist' was answered 404 to a caller with a Host header and
\* to one without
NotFoundNamesRequestWitness ==
    \E r1, r2 \in Requests :
        /\ req[r1].out.status = 404 /\ req[r2].out.status = 404
        /\ req[r1].tool = "doesnotexist"
        /\ header(req[r1].hdrs, "host") # Undefined
        /\ header(req[r2].hdrs, "host") = Undefined
        /\ Contains(req[r2].out.body, DEFAULT_DOMAIN)

(***************************************************************************)
(* C15.  Every successful response of the tool route, on the hit path and  *)
(* on the miss path alike, has status 200, Content-Type 'text/plain;       *)
(* charset=utf-8', Cache-Control 'public, max-age=<TTL>' with the TTL that *)
(* is passed as the edge TTL of the origin fetch, and X-Cache-Status HIT   *)
(* or MISS.                                                                *)
(***************************************************************************)
SuccessResponseHeaders ==
    \A r \in Requests :
        (req[r].pc = "done" /\ Is2xx(req[r].out.status))
            => /\ req[r].out.status = 200
               /\ req[r].out.headers["Content-Type"] = "text/plain; charset=utf-8"
               /\ req[r].out.headers["Cache-Control"] = <<"public", "max-age", CACHE_TTL>>
               /\ req[r].out.headers["X-Cache-Status"] \in {"HIT", "MISS"}
               /\ \A q \in Requests :
                      req[q].fetches > 0
                          => req[q].outbound.cf.cacheTtl = maxAge(req[r].out.headers)

\* C15: a miss whose origin answered 203 and a hit were both answered 200
\* with these headers
SuccessResponseHeadersWitness ==
    \E r1, r2 \in Requests :
        /\ Answered200(r1) /\ CacheStatusOf(r1) = "MISS"
        /\ req[r1].upstream.status = 203
        /\ Answered200(r2) /\ CacheStatusOf(r2) = "HIT"
        /\ maxAge(req[r2].out.headers) = req[r1].outbound.cf.cacheTtl

(***************************************************************************)
(* C16.  Any internal fault raised while handling a resolved tool request  *)
(* (the cache lookup throwing, the origin fetch rejecting, the response    *)
(* construction or the clone throwing, scheduling the store throwing) is   *)
(* converted into a 500 plain-text response that carries the message; the  *)
(* request ends there, with no store registered.                           *)
(***************************************************************************)
FaultsBecome500 ==
    \A r \in Requests :
        req[r].thrown # ""
            => /\ req[r].pc = "done"
               /\ req[r].out.status = 500
               /\ Contains(req[r].out.headers["Content-Type"], "text/plain")
               /\ req[r].out.body = "Internal Server Error: " \o req[r].thrown
               /\ TasksOf(r) = {}

\* C16: a lookup that threw and a clone that threw were both answered 500
FaultsBecome500Witness ==
    \E r1, r2 \in Requests :
        /\ req[r1].thrown = "cache.match failed" /\ req[r1].out.status = 500
        /\ req[r2].thrown = FaultMessage("clone") /\ req[r2].out.status = 500
        /\ req[r2].upstream = [result |-> "response", status |-> 200]

(***************************************************************************)
(* Lifetime of the execution context (C17).                                *)
(***************************************************************************)
\* a context has ended only if the handler has returned and no store of
\* the request is pending or was cut off
EndsAfterStores ==
    \A r \in Requests :
        req[r].env = "terminated"
            => /\ req[r].pc = "done"
               /\ \A t \in TasksOf(r) : t.state \in {"resolved", "rejected"}

\* every store is registered with its request's context
StoresRegistered == \A t \in tasks : t.registered

(***************************************************************************)
(* C17.  The execution context stays alive until every background store    *)
(* registered during the request has settled, although the response was    *)
(* handed back earlier: the context ends only after no store of the        *)
(* request is pending, and, under fair scheduling and with no forced       *)
(* teardown, every registered store eventually settles.                    *)
(***************************************************************************)
AliveUntilStoresSettle ==
    /\ [](EndsAfterStores /\ StoresRegistered)
    /\ \A r \in Requests : StorePending(r) ~> ~StorePending(r)

\* C17: the caller had its response while the store was pending and the
\* context alive; here the store has settled and the context has ended
AliveUntilStoresSettleWitness ==
    \E r \in Requests : \E t \in TasksOf(r) :
        /\ req[r].env = "terminated"
        /\ Answered200(r) /\ CacheStatusOf(r) = "MISS"
        /\ t.registered /\ t.state = "rejected"

(***************************************************************************)
(* C18.  The outbound origin request of a miss is independent of the       *)
(* caller: one GET to the tool's origin URL with no caller-derived header, *)
(* edge TTL equal to the configured TTL and cache-everything set; misses   *)
(* for the same tool from callers with different headers issue identical   *)
(* origin requests.                                                        *)
(***************************************************************************)
OutboundIndependentOfCaller ==
    /\ \A r \in Requests :
           req[r].fetches > 0
               => /\ req[r].fetches = 1
                  /\ req[r].outbound.url = req[r].url
                  /\ req[r].outbound.method = "GET"
                  /\ req[r].outbound.headers = {}
                  /\ req[r].outbound.cf = [cacheTtl |-> CACHE_TTL,
                                           cacheEverything |-> TRUE]
    /\ \A r1, r2 \in Requests :
           (req[r1].fetches > 0 /\ req[r2].fetches > 0 /\ req[r1].tool = req[r2].tool)
               => req[r1].outbound = req[r2].outbound

\* C18: a curl caller and a wget caller both missed and fetched
OutboundIndependentOfCallerWitness ==
    \E r1, r2 \in Requests :
        /\ req[r1].hdrs = Curl /\ req[r2].hdrs = Wget
        /\ req[r1].tool = req[r2].tool
        /\ Answered200(r1) /\ CacheStatusOf(r1) = "MISS" /\ req[r1].fetches = 1
        /\ Answered200(r2) /\ CacheStatusOf(r2) = "MISS" /\ req[r2].fetches = 1

(***************************************************************************)
(* C19.  Concurrent requests for one key during a miss are not coalesced:  *)
(* a lookup is never held back by another request's fetch, so that with an *)
(* absent entry each concurrent request misses, fetches on its own and     *)
(* registers its own store (two origin fetches for one key are in flight   *)
(* at once), and each of them receives a correct 200 MISS response.        *)
(***************************************************************************)
MissesNotCoalesced ==
    /\ \A r \in Requests : req[r].pc = "match" => ENABLED MatchSettle(r, FALSE)
    /\ \A r \in Requests :
           req[r].pc = "fetch" => req[r].tag = "MISS" /\ req[r].fetches = 1
    /\ \A r \in Requests :
           (req[r].pc \in {"return", "done"} /\ FetchSucceeded(r) /\ req[r].thrown = "")
               => /\ \E t \in tasks : t.req = r /\ t.key = req[r].key
                  /\ streams[<<r, "origin">>].bytes \in
                         {Versions[v] : v \in DOMAIN Versions}
                  /\ req[r].pc = "done"
                         => /\ req[r].out.status = 200
                            /\ CacheStatusOf(r) = "MISS"
                            /\ req[r].out.body = streams[<<r, "origin">>].bytes

\* C19: two origin fetches for one key are in flight at once
MissesNotCoalescedWitness ==
    \E r1, r2 \in Requests :
        /\ r1 # r2
        /\ req[r1].key = req[r2].key /\ req[r1].loc = req[r2].loc
        /\ req[r1].pc = "fetch" /\ req[r2].pc = "fetch"
        /\ req[r1].tag = "MISS" /\ req[r2].tag = "MISS"

(***************************************************************************)
(* Idempotent and convergent stores (C20).                                 *)
(***************************************************************************)
\* the stores for the key k in the location l
StoresFor(l, k) == {t \in tasks : t.loc = l /\ t.key = k}

\* the entry a pending store will put
EntryOf(t) ==
    [status |-> t.entry.status, headers |-> t.entry.headers,
     body |-> Read(streams, t.entry.body), storedAt |-> now]

\* putting an entry twice gives the store that putting it once gives
PutIdempotent ==
    \A t \in tasks :
        t.state = "pending"
            => LET once == Put(cache[t.loc], t.key, EntryOf(t))
               IN  /\ Put(once, t.key, EntryOf(t)) = once
                   /\ t.key \in DOMAIN once /\ once[t.key] = EntryOf(t)
                   /\ \A k \in DOMAIN cache[t.loc] \ {t.key} : once[k] = cache[t.loc][k]

\* once the stores for a key have settled, its entry is what one of those
\* that resolved fetched
StoresConverge ==
    \A l \in Locations : \A r \in Requests :
        LET k == req[r].key
            done == {t \in StoresFor(l, k) : t.state = "resolved"}
        IN  ( /\ done # {}
              /\ \A t \in StoresFor(l, k) : t.state # "pending" )
                => /\ k \in DOMAIN cache[l]
                   /\ cache[l][k].body \in
                          {streams[<<t.req, "origin">>].bytes : t \in done}
                   /\ Is2xx(cache[l][k].status)

ResolvedAt(l, k) == {t \in StoresFor(l, k) : t.state = "resolved"}

\* a lookup hits only on an entry that a request of the same location,
\* itself a miss, had stored there
HitFromOwnLocation ==
    \A r \in Requests :
        (LookupAnswers(r) /\ req'[r].tag = "HIT")
            => \E t \in ResolvedAt(req[r].loc, req[r].key) :
                   /\ req[t.req].loc = req[r].loc
                   /\ req[t.req].tag = "MISS"
                   /\ req[t.req].fetches = 1

\* with no store resolved in its own location a lookup misses, whatever
\* the other locations hold
StoreElsewhereMisses ==
    \A r \in Requests :
        (LookupAnswers(r) /\ ResolvedAt(req[r].loc, req[r].key) = {})
            => /\ req'[r].tag = "MISS"
               /\ req'[r].pc = "fetch"

\* a store that settles changes the store of its own location only
StoreChangesOwnLocation ==
    \A l \in Locations :
        cache'[l] # cache[l]
            => \E t \in tasks :
                   /\ t.loc = l
                   /\ t.state = "pending"
                   /\ [t EXCEPT !.state = "resolved", !.settledAt = now,
                                !.stored = cache'[l][t.key].body] \in tasks'

\* a location holds an entry only under a key stored there
EntriesAreLocal ==
    \A l \in Locations : \A k \in DOMAIN cache[l] : ResolvedAt(l, k) # {}

(***************************************************************************)
(* C21.  The cache store is per location: a store that completes in one    *)
(* location does not make a lookup in another location hit.  A location    *)
(* serves HIT for a key only after a request in that same location went    *)
(* through a MISS and its store settled there.                             *)
(***************************************************************************)
StorePerLocation ==
    /\ [][HitFromOwnLocation /\ StoreElsewhereMisses /\ StoreChangesOwnLocation]_vars
    /\ []EntriesAreLocal

\* C21: the store of one request resolved in its location, and the lookup
\* of a request for the same key in the other location missed
StorePerLocationWitness ==
    \E r1, r2 \in Requests :
        /\ req[r1].loc # req[r2].loc
        /\ req[r2].loc # ""
        /\ req[r1].key = req[r2].key
        /\ \E t \in TasksOf(r1) : t.state = "resolved"
        /\ req[r1].key \in DOMAIN cache[req[r1].loc]
        /\ req[r1].key \notin DOMAIN cache[req[r2].loc]
        /\ req[r2].pc = "fetch"
        /\ req[r2].tag = "MISS"

(***************************************************************************)
(* The headers of a miss.                                                  *)
(***************************************************************************)
\* the names the handler writes itself
HandlerHeaders ==
    {"Content-Type", "Cache-Control", "X-Cache-Status", "X-Content-Source",
     "X-Worker-Version"}

\* the headers carry the handler's content type and lifetime, and nothing
\* of what the origin sent
Controlled(headers) ==
    /\ DOMAIN headers \subseteq HandlerHeaders
    /\ {"Content-Type", "Cache-Control"} \subseteq DOMAIN headers
    /\ headers["Content-Type"] = ContentType
    /\ headers["Cache-Control"] = CacheControl(CACHE_TTL)
    /\ \A n \in DOMAIN UpstreamHeaders :
           n \in DOMAIN headers => headers[n] # UpstreamHeaders[n]

\* the requests answered 200 after a fetch of their own
AnsweredMiss(r) == Answered200(r) /\ req[r].fetches = 1

StepOrder ==
    {<<"idle", "match">>, <<"idle", "done">>,
     <<"match", "return">>, <<"match", "fetch">>, <<"match", "done">>,
     <<"fetch", "return">>, <<"fetch", "done">>,
     <<"return", "done">>}

StepsInOrder ==
    \A r \in Requests :
        req'[r].pc # req[r].pc => <<req[r].pc, req'[r].pc>> \in StepOrder

\* while the lookup is awaited the key is built and nothing else has happened
KeyThenLookup ==
    \A r \in Requests :
        req[r].pc = "match"
            => /\ req[r].url = scriptURL(toolConfig(req[r].tool))
               /\ req[r].key = cacheKey(req[r].url, req[r].hdrs)
               /\ req[r].tag = ""
               /\ req[r].fetches = 0
               /\ req[r].outbound = NoRequest
               /\ req[r].response = NoResponse
               /\ TasksOf(r) = {}

\* fetch is called in the step in which the lookup settles absent, only
FetchAfterMiss ==
    \A r \in Requests :
        (req'[r].fetches # req[r].fetches \/ req'[r].outbound # req[r].outbound)
            => /\ req[r].pc = "match"
               /\ req'[r].pc = "fetch"
               /\ req'[r].tag = "MISS"
               /\ ~Cached(req[r].loc, req[r].key, now)

\* the fetch settled, the response is built, then cloned, then the store of
\* the clone is registered, all before anything is returned
BuildSplitRegister ==
    \A r \in Requests :
        (req[r].pc = "fetch" /\ req'[r].pc = "return")
            => /\ req'[r].response.headers = StoredHeaders
               /\ req'[r].response.body \in DOMAIN streams' \ DOMAIN streams
               /\ \E t \in tasks' \ tasks :
                      /\ t.req = r
                      /\ t.registered
                      /\ t.state = "pending"
                      /\ t.entry.status = req'[r].response.status
                      /\ t.entry.headers = req'[r].response.headers
                      /\ t.entry.body \in DOMAIN streams' \ DOMAIN streams
                      /\ t.entry.body # req'[r].response.body
                      /\ streams'[t.entry.body].bytes =
                             streams'[req'[r].response.body].bytes
               /\ req'[r].out = NoResponse

\* a store is registered in no other step; the return registers nothing
RegisterThenReturn ==
    \A r \in Requests :
        /\ (\E t \in tasks' \ tasks : t.req = r /\ t.state = "pending")
               => req[r].pc = "fetch" /\ req'[r].pc = "return"
        /\ (req[r].pc = "return" /\ req'[r].pc = "done")
               => /\ {t \in tasks' : t.req = r} = TasksOf(r)
                  /\ req[r].tag = "MISS" => TasksOf(r) # {}

(***************************************************************************)
(* C23.  Within one request the steps happen in the strict order: build    *)
(* key, cache lookup, then on a miss origin fetch, build response, split   *)
(* (clone), register the background store, return the response.  The store *)
(* is registered before the response is returned, and the origin is never  *)
(* fetched before the lookup has completed with a miss.                    *)
(***************************************************************************)
StrictStepOrder ==
    /\ [][StepsInOrder /\ FetchAfterMiss /\ BuildSplitRegister /\ RegisterThenReturn]_vars
    /\ []KeyThenLookup

\* C23: a miss has fetched, built, cloned and registered, and has not yet
\* returned
StrictStepOrderWitness ==
    \E r \in Requests :
        /\ req[r].pc = "return"
        /\ req[r].tag = "MISS"
        /\ req[r].fetches = 1
        /\ req[r].out = NoResponse
        /\ \E t \in TasksOf(r) : t.registered /\ t.entry.body \in DOMAIN streams

(***************************************************************************)
(* The precondition of response.clone().                                   *)
(***************************************************************************)
BodyOf(r) == <<r, "origin">>

CloneOf(r) == <<r, "clone">>

\* the step that takes the clone finds the body unread, and leaves both
\* the body and the clone unread with the same bytes
CloneOfUnreadBody ==
    \A r \in Requests :
        CloneOf(r) \in DOMAIN streams' \ DOMAIN streams
            => /\ BodyOf(r) \in DOMAIN streams'
               /\ BodyOf(r) \in DOMAIN streams => ~streams[BodyOf(r)].used
               /\ ~streams'[BodyOf(r)].used
               /\ ~streams'[CloneOf(r)].used
               /\ streams'[CloneOf(r)].bytes = streams'[BodyOf(r)].bytes
               /\ streams'[CloneOf(r)].bytes # ""

\* the body is read by the return of the response, with the clone taken
BodyReadAfterClone ==
    \A r \in Requests :
        (BodyOf(r) \in DOMAIN streams' /\ streams'[BodyOf(r)].used)
            => /\ CloneOf(r) \in DOMAIN streams
               /\ req'[r].pc = "done"
               /\ req[r].pc \in {"return", "done"}

(***************************************************************************)
(* C24.  The splitter precondition holds in every execution of the         *)
(* handler: the response body is cloned before any byte of it has been     *)
(* read and before a reader has locked it, so the clone never operates on  *)
(* a consumed or locked body; the caller's body is consumed only after the *)
(* clone was taken.                                                        *)
(***************************************************************************)
SplitterPrecondition == [][CloneOfUnreadBody /\ BodyReadAfterClone]_vars

\* C24: the caller has read the whole body and the clone, taken before, is
\* still unread with all the bytes
SplitterPreconditionWitness ==
    \E r \in Requests :
        /\ BodyOf(r) \in DOMAIN streams
        /\ CloneOf(r) \in DOMAIN streams
        /\ streams[BodyOf(r)].used
        /\ ~streams[CloneOf(r)].used
        /\ req[r].out.body = streams[CloneOf(r)].bytes
        /\ req[r].out.body = Versions[1]

(***************************************************************************)
(* The two branches of a cloned body.                                      *)
(***************************************************************************)
RECURSIVE Join(_)
\* the chunks put together again
Join(chunks) == IF chunks = <<>> THEN "" ELSE Head(chunks) \o Join(Tail(chunks))

Split(r) == <<r, "clone">> \in DOMAIN streams

OriginChunks(r) == Chunks(streams[BodyOf(r)].bytes)

\* what the branch has got, what is buffered for it and what has not yet
\* arrived from the origin are together the original bytes, in order
NothingLostOrReordered ==
    \A r \in Requests : \A b \in Branches :
        Split(r)
            => tee[r].got[b] \o Join(tee[r].queue[b]) \o
               Join(SubSeq(OriginChunks(r), tee[r].pos + 1, Len(OriginChunks(r))))
                   = streams[BodyOf(r)].bytes

\* a branch read to its end has got the bytes the origin sent: the bytes
\* the caller is given, the bytes the clone stands for
DrainedIsComplete ==
    \A r \in Requests : \A b \in Branches :
        (Split(r) /\ Drained(tee[r], OriginChunks(r), b))
            => /\ tee[r].got[b] = streams[BodyOf(r)].bytes
               /\ tee[r].got[b] = streams[CloneOf(r)].bytes
               /\ tee[r].got[b] \in {Versions[v] : v \in 1..Len(Versions)}
               /\ req[r].pc = "done" => tee[r].got[b] = req[r].out.body

\* a reader that has not got everything can read, however far the other is
NeverBlocked ==
    \A r \in Requests :
        Split(r)
            => /\ (req[r].pc = "done" /\ ~Drained(tee[r], OriginChunks(r), "body"))
                      => ENABLED Pull(r, "body")
               /\ ~Drained(tee[r], OriginChunks(r), "clone")
                      => ENABLED Pull(r, "clone")

\* the chunks the branch has got so far
Chunk(r, b) == tee[r].pos - Len(tee[r].queue[b])

\* a read gives the reading branch its next chunk and leaves what the
\* other branch has got, and what it will get, as it was
ReadLeavesOther ==
    \A r \in Requests : \A b \in Branches :
        tee'[r].got[b] # tee[r].got[b]
            => /\ tee'[r].got[b] = tee[r].got[b] \o OriginChunks(r)[Chunk(r, b) + 1]
               /\ tee'[r].got[Other(b)] = tee[r].got[Other(b)]
               /\ \A q \in Requests \ {r} : tee'[q] = tee[q]

(***************************************************************************)
(* C25.  The two copies produced on a miss are independent: for every      *)
(* interleaving of reads by the caller and by the cache store (one reader  *)
(* finishing before the other starts, or one never reading, included),     *)
(* each stream that is read to completion yields the full original byte    *)
(* sequence in order, and reading one never blocks, truncates or alters    *)
(* the other.                                                              *)
(***************************************************************************)
BranchesIndependent ==
    /\ [](NothingLostOrReordered /\ DrainedIsComplete /\ NeverBlocked)
    /\ [][ReadLeavesOther]_vars

\* C25: the caller has read the whole body, in several chunks, before the
\* store has read anything of its clone
BranchesIndependentWitness ==
    \E r \in Requests :
        /\ Split(r)
        /\ Drained(tee[r], OriginChunks(r), "body")
        /\ tee[r].got["body"] = Versions[1]
        /\ tee[r].got["clone"] = ""
        /\ Len(tee[r].queue["clone"]) = Len(OriginChunks(r))
        /\ Len(OriginChunks(r)) > 1

(***************************************************************************)
(* Stores that fail.                                                       *)
(***************************************************************************)
Failed(t) == t.state \in {"rejected", "cut off"}

\* a store that failed stays failed and puts nothing, and the request that
\* registered it registers no other
NoRetry ==
    /\ \A t \in tasks : Failed(t) => t \in tasks'
    /\ \A t \in tasks' \ tasks : Failed(t) => cache' = cache
    /\ \A r \in Requests : Cardinality({t \in tasks' : t.req = r}) <= 1

\* after failed stores only, the next lookup misses and goes to the origin
MissAfterFailedStore ==
    \A r \in Requests :
        (LookupAnswers(r) /\ ResolvedAt(req[r].loc, req[r].key) = {})
            => /\ req[r].key \notin DOMAIN cache[req[r].loc]
               /\ req'[r].tag = "MISS"
               /\ req'[r].pc = "fetch"
               /\ req'[r].fetches = 1

\* once a store has resolved, a lookup hits
HitAfterResolvedStore ==
    \A r \in Requests :
        (LookupAnswers(r) /\ ResolvedAt(req[r].loc, req[r].key) # {})
            => /\ req'[r].tag = "HIT"
               /\ req'[r].fetches = 0

(***************************************************************************)
(* C26.  The cache self-heals without retries: when a background store     *)
(* fails or is cut off by a forced teardown of the environment, no retry   *)
(* is scheduled and the key stays absent; the next request for that key is *)
(* a MISS that fetches from the origin and registers a new store, and once *)
(* a store settles successfully later requests are HIT.                    *)
(***************************************************************************)
SelfHealing ==
    /\ [][NoRetry /\ MissAfterFailedStore /\ BuildSplitRegister
              /\ HitAfterResolvedStore]_vars
    /\ []EntriesAreLocal

\* C26: the store of one request was cut off by a teardown; the next
\* request missed, fetched and registered a store of its own, which
\* resolved: the entry is there for the lookups to come
SelfHealingWitness ==
    \E r1, r2 \in Requests :
        /\ \E t \in TasksOf(r1) : t.state = "cut off"
        /\ req[r1].env = "terminated"
        /\ req[r2].key = req[r1].key
        /\ r1 \in req[r2].after
        /\ req[r2].tag = "MISS"
        /\ req[r2].fetches = 1
        /\ \E t \in TasksOf(r2) : t.state = "resolved"
        /\ Cached(req[r2].loc, req[r2].key, now)

(***************************************************************************)
(* The stores a request registers.                                         *)
(***************************************************************************)
\* the request is past the statement that registers the store
Finalized(r) ==
    /\ req[r].pc \in {"return", "done"}
    /\ req[r].tag = "MISS"
    /\ FetchSucceeded(r)
    /\ req[r].thrown = ""

(***************************************************************************)
(* C27.  A background store task is created exactly when a miss response   *)
(* is finalized: each request registers exactly one store if it is a miss  *)
(* whose origin fetch returned 2xx, and registers none if it is a hit, a   *)
(* 404, a 502 or a 500.                                                    *)
(***************************************************************************)
OneStorePerMiss ==
    \A r \in Requests :
        /\ Cardinality(TasksOf(r)) = IF Finalized(r) THEN 1 ELSE 0
        /\ req[r].tag = "HIT" => TasksOf(r) = {}
        /\ (req[r].pc = "done" /\ req[r].out.status \in {404, 502, 500})
               => TasksOf(r) = {}
        /\ (req[r].pc = "done" /\ req[r].tag = "MISS" /\ FetchSucceeded(r))
               => Cardinality(TasksOf(r)) = 1

\* C27: one request was a miss with an origin answer 203 and has its one
\* store; the other got 502 for the origin's 404 and has none
OneStorePerMissWitness ==
    \E r1, r2 \in Requests :
        /\ Answered200(r1)
        /\ req[r1].upstream.status = 203
        /\ Cardinality(TasksOf(r1)) = 1
        /\ req[r2].pc = "done"
        /\ req[r2].out.status = 502
        /\ req[r2].upstream.status = 404
        /\ TasksOf(r2) = {}

(***************************************************************************)
(* The keys of different tools.                                            *)
(***************************************************************************)
\* the (repo, scriptPath) pair registered under the name
PairOf(n) == <<registry[n].repo, registry[n].scriptPath>>

DistinctPairsDistinctKeys ==
    \A a, b \in DOMAIN registry :
        PairOf(a) # PairOf(b)
            => /\ scriptURL(toolConfig(a)) # scriptURL(toolConfig(b))
               /\ \A h1, h2 \in CallerHeaders :
                      cacheKey(scriptURL(toolConfig(a)), h1) #
                          cacheKey(scriptURL(toolConfig(b)), h2)

\* requests for tools with different pairs look up different keys
RequestsOfDistinctToolsDiffer ==
    \A r1, r2 \in Requests :
        (req[r1].pc # "idle" /\ req[r2].pc # "idle"
             /\ PairOf(req[r1].tool) # PairOf(req[r2].tool))
            => /\ req[r1].url # req[r2].url
               /\ req[r1].key # req[r2].key

\* a hit serves what a request for the same (repo, scriptPath) stored
HitIsOwnScript ==
    \A r \in Requests :
        (LookupAnswers(r) /\ req'[r].tag = "HIT")
            => /\ ResolvedAt(req[r].loc, req[r].key) # {}
               /\ \A t \in StoresFor(req[r].loc, req[r].key) :
                      PairOf(req[t.req].tool) = PairOf(req[r].tool)

(***************************************************************************)
(* C28.  Distinct resources never collapse onto one cache key: for any two *)
(* registry entries whose (repo, scriptPath) pairs differ, the origin URLs *)
(* and therefore the cache keys built by the handler differ, so a request  *)
(* for one tool is never served the cached script of another tool.         *)
(***************************************************************************)
DistinctResourcesDistinctKeys ==
    /\ [](DistinctPairsDistinctKeys /\ RequestsOfDistinctToolsDiffer)
    /\ [][HitIsOwnScript]_vars

\* C28: with the script of one tool stored, the request for a tool with
\* another pair missed and stored under a key of its own
DistinctResourcesDistinctKeysWitness ==
    \E r1, r2 \in Requests :
        /\ req[r1].pc = "done"
        /\ req[r2].pc = "done"
        /\ r1 \in req[r2].after
        /\ PairOf(req[r1].tool) # PairOf(req[r2].tool)
        /\ registry[req[r1].tool].repo = registry[req[r2].tool].repo
        /\ \E t \in TasksOf(r1) : t.state = "resolved"
        /\ req[r2].tag = "MISS"
        /\ {req[r1].key, req[r2].key} \subseteq DOMAIN cache["SIN"]
        /\ req[r1].key # req[r2].key

(***************************************************************************)
(* What a hit leaves alone.                                                *)
(***************************************************************************)
\* the lookup that finds the entry, and the return of it, change neither
\* the cache store nor the edge nor the tasks
HitStepsReadOnly ==
    \A r \in Requests :
        ((LookupAnswers(r) /\ req'[r].tag = "HIT")
             \/ (req[r].tag = "HIT" /\ req'[r].pc # req[r].pc))
            => /\ cache' = cache
               /\ tasks' = tasks
               /\ edge' = edge

\* a request that hit has called no fetch and registered no task
HitFetchesNothing ==
    \A r \in Requests :
        req[r].tag = "HIT"
            => /\ req[r].fetches = 0
               /\ req[r].outbound = NoRequest
               /\ req[r].upstream.result = "none"
               /\ TasksOf(r) = {}

\* an entry keeps the time of the store that put it
LifetimeFromStore ==
    \A l \in Locations : \A k \in DOMAIN cache[l] :
        \E t \in ResolvedAt(l, k) : cache[l][k].storedAt = t.settledAt

(***************************************************************************)
(* C29.  A hit is read-only: a request that finds the entry in the cache   *)
(* performs no origin fetch, registers no background task and leaves the   *)
(* cache store, the entry's content and remaining lifetime included,       *)
(* unchanged.                                                              *)
(***************************************************************************)
HitReadOnly ==
    /\ [][HitStepsReadOnly]_vars
    /\ [](HitFetchesNothing /\ LifetimeFromStore)

\* C29: a request that arrived some time after the store was answered from
\* the entry, and the entry still has the time of its store
HitReadOnlyWitness ==
    \E r \in Requests :
        /\ Answered200(r)
        /\ CacheStatusOf(r) = "HIT"
        /\ req[r].at > 0
        /\ req[r].fetches = 0
        /\ TasksOf(r) = {}
        /\ req[r].key \in DOMAIN cache[req[r].loc]
        /\ cache[req[r].loc][req[r].key].storedAt = 0
        /\ cache[req[r].loc][req[r].key].body = req[r].out.body

(***************************************************************************)
(* A lookup that throws.                                                   *)
(***************************************************************************)
LookupThrew(r) == req[r].thrown = "cache.match failed"

\* the step in which the lookup throws ends the request and touches
\* nothing else
ThrowingLookupEnds ==
    \A r \in Requests :
        (req[r].pc = "match" /\ req'[r].thrown = "cache.match failed")
            => /\ req'[r].pc = "done"
               /\ req'[r].out = text(ServerErrorText("cache.match failed"), 500)
               /\ cache' = cache
               /\ tasks' = tasks
               /\ edge' = edge

\* a request whose lookup threw is a 500 without fetch and without store
ThrownLookupIs500 ==
    \A r \in Requests :
        LookupThrew(r)
            => /\ req[r].pc = "done"
               /\ req[r].out.status = 500
               /\ req[r].tag = ""
               /\ req[r].fetches = 0
               /\ req[r].outbound = NoRequest
               /\ req[r].upstream.result = "none"
               /\ TasksOf(r) = {}

\* the origin is fetched only when the lookup returned no entry
FetchOnlyWhenAbsent ==
    \A r \in Requests :
        req'[r].fetches > req[r].fetches
            => /\ req[r].pc = "match"
               /\ ~Cached(req[r].loc, req[r].key, now)
               /\ ~LookupThrew(r)'
               /\ req'[r].tag = "MISS"

(***************************************************************************)
(* C30.  A cache lookup that fails with an exception is not treated as a   *)
(* miss: the request ends with status 500 and makes no origin fetch and no *)
(* store; only a lookup that returns absent leads to the origin fetch.     *)
(***************************************************************************)
LookupFailureIsNotMiss ==
    /\ [][ThrowingLookupEnds /\ FetchOnlyWhenAbsent]_vars
    /\ []ThrownLookupIs500

\* C30: with nothing stored under its key, a request whose lookup threw
\* ended 500 without having fetched
LookupFailureIsNotMissWitness ==
    \E r \in Requests :
        /\ LookupThrew(r)
        /\ req[r].out.status = 500
        /\ req[r].fetches = 0
        /\ req[r].key # NoKey
        /\ req[r].key \notin DOMAIN cache[req[r].loc]
        /\ TasksOf(r) = {}

(***************************************************************************)
(* The one response of a request.                                          *)
(***************************************************************************)
ResponseStatuses == {200, 404, 502, 500}

\* a request that is done has a response with one of the four statuses,
\* and a request that is not has none
AnsweredWithStatus ==
    \A r \in Requests :
        IF req[r].pc = "done"
        THEN req[r].out.status \in ResponseStatuses
        ELSE req[r].out = NoResponse

\* the response is produced in the step that ends the request and is not
\* replaced afterwards
AnsweredOnce ==
    \A r \in Requests :
        /\ req'[r].out # req[r].out
               => req[r].pc # "done" /\ req'[r].pc = "done"
        /\ req[r].pc = "done" => req'[r].pc = "done"

(***************************************************************************)
(* C31.  Every request to the tool route produces exactly one response,    *)
(* and its status is one of 200, 404, 502 or 500; provided the cache       *)
(* lookup and the origin fetch each eventually settle, the response is     *)
(* eventually produced whether or not the background store ever settles.   *)
(***************************************************************************)
ExactlyOneResponse ==
    /\ []AnsweredWithStatus
    /\ [][AnsweredOnce]_vars
    /\ \A r \in Requests : (req[r].pc # "idle") ~> (req[r].pc = "done")

\* C31: a miss has its 200 while its store has not settled
ExactlyOneResponseWitness ==
    \E r \in Requests :
        /\ req[r].pc = "done"
        /\ req[r].out.status = 200
        /\ req[r].fetches = 1
        /\ StorePending(r)

(***************************************************************************)
(* The status of a success.                                                *)
(***************************************************************************)
\* every response with a script has status 200, whatever status the
\* response it was made from has
SuccessIs200 ==
    \A r \in Requests :
        (req[r].pc = "done" /\ req[r].tag \in {"HIT", "MISS"}
             /\ req[r].response # NoResponse)
            => req[r].out.status = 200

\* the entry handed to the store, and the entry stored, have the status
\* the origin answered with
EntryKeepsOriginStatus ==
    /\ \A t \in tasks :
           /\ t.entry.status = req[t.req].upstream.status
           /\ Is2xx(t.entry.status)
    /\ \A l \in Locations : \A k \in DOMAIN cache[l] :
           \E t \in ResolvedAt(l, k) : cache[l][k].status = t.entry.status

\* a hit holds the entry with its status and is answered 200
HitIs200 ==
    \A r \in Requests :
        (req[r].pc = "done" /\ req[r].tag = "HIT")
            => /\ req[r].out.status = 200
               /\ \E t \in ResolvedAt(req[r].loc, req[r].key) :
                      req[r].response.status = t.entry.status

(***************************************************************************)
(* C32.  The status returned to the caller for a successful request is     *)
(* always 200, also when the origin answered with another 2xx status,      *)
(* whereas the entry put in the cache keeps the origin's own status; a     *)
(* later HIT on that entry again returns 200, so the caller-visible status *)
(* never depends on the stored entry's status.                             *)
(***************************************************************************)
SuccessStatusIs200 == SuccessIs200 /\ EntryKeepsOriginStatus /\ HitIs200

\* C32: the origin answered 203, the miss was answered 200, the entry was
\* stored with 203, and the hit on it was answered 200
SuccessStatusIs200Witness ==
    \E r1, r2 \in Requests :
        /\ req[r1].pc = "done"
        /\ req[r1].upstream.status = 203
        /\ req[r1].out.status = 200
        /\ req[r2].pc = "done"
        /\ req[r2].tag = "HIT"
        /\ req[r2].response.status = 203
        /\ req[r2].out.status = 200
        /\ cache[req[r2].loc][req[r2].key].status = 203

(***************************************************************************)
(* The tag and the headers of a response served from the cache.            *)
(***************************************************************************)
\* no entry, stored or about to be, has an X-Cache-Status header
StoredHasNoTag ==
    /\ \A t \in tasks : "X-Cache-Status" \notin DOMAIN t.entry.headers
    /\ \A l \in Locations : \A k \in DOMAIN cache[l] :
           "X-Cache-Status" \notin DOMAIN cache[l][k].headers

\* the request holds a response that cache.match returned
ServedFromCache(r) == req[r].response.body = <<r, "cached">>

\* a response served from the cache is tagged HIT, its headers are the
\* ones the handler writes for this request, and the header only the
\* stored entry has is not among them
HitHeadersFresh ==
    \A r \in Requests :
        ServedFromCache(r)
            => /\ req[r].tag = "HIT"
               /\ req[r].pc = "done"
                      => /\ CacheStatusOf(r) = "HIT"
                         /\ req[r].out.headers = ReturnedHeaders("HIT")
                         /\ DOMAIN req[r].out.headers \cap
                                (DOMAIN req[r].response.headers \
                                     {"Content-Type", "Cache-Control"}) = {}

(***************************************************************************)
(* C33.  The entry stored in the cache never carries the MISS tag of the   *)
(* request that created it: the stored entry has no X-Cache-Status header, *)
(* and the headers of a HIT response are built fresh for each request, so  *)
(* no sequence of requests produces a response served from the cache that  *)
(* is tagged MISS or that carries headers taken from the stored entry.     *)
(***************************************************************************)
StoredEntryUntagged == StoredHasNoTag /\ HitHeadersFresh

\* C33: a request tagged MISS stored the entry; the response served from
\* it is tagged HIT and lacks the entry's X-Content-Source
StoredEntryUntaggedWitness ==
    \E r1, r2 \in Requests :
        /\ Answered200(r1)
        /\ CacheStatusOf(r1) = "MISS"
        /\ \E t \in TasksOf(r1) : t.state = "resolved"
        /\ Answered200(r2)
        /\ ServedFromCache(r2)
        /\ CacheStatusOf(r2) = "HIT"
        /\ "X-Content-Source" \in DOMAIN req[r2].response.headers
        /\ "X-Content-Source" \notin DOMAIN req[r2].out.headers

(***************************************************************************)
(* The keys of the earlier revision.                                       *)
(***************************************************************************)
\* requests for one tool with different headers have different keys
KeyFollowsCaller ==
    \A r1, r2 \in Requests :
        (req[r1].pc # "idle" /\ req[r2].pc # "idle"
             /\ req[r1].url = req[r2].url)
            => (req[r1].key = req[r2].key <=> req[r1].hdrs = req[r2].hdrs)

\* the stores resolved for the URL of r by requests with other headers
StoredByOthers(r) ==
    {t \in tasks : /\ t.state = "resolved"
                   /\ t.loc = req[r].loc
                   /\ t.key.url = req[r].url
                   /\ req[t.req].hdrs # req[r].hdrs}

\* the stores resolved for the URL of r by requests with its own headers
StoredByAlike(r) ==
    {t \in tasks : /\ t.state = "resolved"
                   /\ t.loc = req[r].loc
                   /\ t.key.url = req[r].url
                   /\ req[t.req].hdrs = req[r].hdrs}

\* a lookup finds the entry exactly when a caller with the same headers
\* had stored it: what callers with other headers stored does not count
MissAcrossClients ==
    \A r \in Requests :
        LookupAnswers(r)
            => IF StoredByAlike(r) = {}
               THEN req'[r].pc = "fetch" /\ req'[r].fetches = 1
               ELSE req'[r].pc = "return" /\ req'[r].fetches = 0

(***************************************************************************)
(* C34.  In the earlier revision of the handler the cache key is built by  *)
(* copying the caller's request, so two requests for the same tool with    *)
(* different caller headers produce different cache keys and the second    *)
(* one is a miss even after the first one's store has settled (perpetual   *)
(* MISS across clients).                                                   *)
(***************************************************************************)
EarlierKeyPerCaller == []KeyFollowsCaller /\ [][MissAcrossClients]_vars

\* C34: the store of the first caller resolved and its entry is in the
\* cache; the second caller, with other headers, came after the first was
\* answered, missed and fetched the same URL again
EarlierKeyPerCallerWitness ==
    \E r1, r2 \in Requests :
        /\ req[r1].url = req[r2].url
        /\ req[r1].hdrs # req[r2].hdrs
        /\ r1 \in req[r2].after
        /\ \E t \in TasksOf(r1) : t.state = "resolved"
        /\ StoredByOthers(r2) # {}
        /\ req[r1].key \in DOMAIN cache[req[r1].loc]
        /\ req[r2].key \notin DOMAIN cache[req[r2].loc]
        /\ req[r2].pc = "done"
        /\ req[r2].fetches = 1
        /\ req[r2].out.status = 200

(***************************************************************************)
(* C35.  In the earlier revision of the handler every 200 response carries *)
(* X-Cache-Status equal to HIT when it was served from the cache store and *)
(* MISS when the origin was contacted.                                     *)
(***************************************************************************)
EarlierTagIsHitOrMiss ==
    \A r \in Requests :
        Answered200(r)
            => CacheStatusOf(r) = IF ServedFromCache(r) THEN "HIT" ELSE "MISS"

(***************************************************************************)
(* C36.  In the earlier revision of the handler the entry stored in the    *)
(* cache on a miss carries only the controlled header set and none of the  *)
(* upstream response's headers (such as Set-Cookie).                       *)
(***************************************************************************)
EarlierEntryControlled ==
    /\ \A t \in tasks : Controlled(t.entry.headers)
    /\ \A l \in Locations : \A k \in DOMAIN cache[l] :
           /\ Controlled(cache[l][k].headers)
           /\ "Set-Cookie" \notin DOMAIN cache[l][k].headers

=============================================================================
